---- MODULE Spec2Model ----
(***************************************************************************)
(* mi-flora-exporter: the history and realtime commands.                   *)
(*                                                                         *)
(* The model follows one run of the "history" or the "realtime" command of *)
(* main: setupOutput starts the sink task (json or tsdb Run) and the task  *)
(* that waits for the sink's error, then MiFlora.HistoricValues or         *)
(* MiFlora.Realtime runs in the calling flow, then finish() waits for the  *)
(* sink's verdict.  Addresses are small integers ordered like the address  *)
(* strings of the SensorSlice.                                             *)
(***************************************************************************)
EXTENDS Integers, Sequences, FiniteSets, TLC

(* ------------------------------ bounds -------------------------------- *)

\* number of distinct sensor addresses the radio can report
NumSensors == 2

\* largest history length the device of the first sensor reports; above
\* BatchLimit + 1, so that one pass cannot drain it
MaxLen == 52

\* largest history length the devices of the other sensors report
ShortLen == 1

\* number of insertSorted calls made on one SensorSlice
MaxInserts == 4

\* number of devices per vendor prefix the radio can hear
NumDevices == 2

\* largest number of entries of the override list (--sensor-name)
MaxOverrides == 2

\* largest value of --expected-sensors
MaxExpected == 2

\* largest length byte of a measurement sub-record
MaxDataLen == 2

(* ------------------------- program constants -------------------------- *)

\* "limit batch size at 50": the literal of the batch test
BatchLimit == 50

\* width of the uint16 position / history length
Uint16 == 65536

\* historyPointer == nil
NoPointer == -1

\* no history length was read in this closure call
NoLength == -1

Addr == 1..NumSensors

VARIABLES
    command,        \* "history" or "realtime": the cli command that runs
    pc,             \* position of the calling flow inside the core
    sensors,        \* the slice the current pass ranges over
    nextSensors,    \* the slice collected for the next pass
    idx,            \* index of the sensor of the current closure call
    historyPointer, \* Sensor.historyPointer per address (NoPointer = nil)
    historyLength,  \* local of the closure
    reportedLength, \* what client.HistoryLength returned, until the entry loop reads
    i,              \* loop variable of the closure (int32)
    deferClose,     \* the closure has registered its deferred CancelConnection
    ctxDone,        \* the context of setupOutput (context.WithCancel) is cancelled
    innerErr,       \* Err() of the closure's 30 s context: "none", "Canceled", "DeadlineExceeded"
    resultErr,      \* what HistoricValues / Realtime returned ("pending" while running)
    sink,           \* the sink task: "idle" (in its range loop), "reporting" (errCh <- err), "exited"
    watcher,        \* the task of setupOutput: "waiting", "sending" (errResult <- err), "done"
    cmdPc,          \* the command's Action: "run", "finish", "exit"
    cmdResult,      \* what the command's Action returned ("none" while running)
    dropped,        \* some dialled connection was given up open, without CancelConnection
    delivered,      \* per address, the positions of the historic Results the sink received
    rtDelivered,    \* the addresses of the realtime Results the sink received, in order
    passStart,      \* Len(delivered[cur]) when the current closure call began
    passProgress,   \* some cursor advanced in the current pass
    lastExit,       \* how the closure call before the current one ended
    closeErr,       \* the deferred CancelConnection of that call returned an error
    loopEvent,      \* what the loop did after it: "none", "next", "newPass", "break", "abort"
    prevProgress,   \* at a "newPass": some cursor advanced in the pass just completed
    sensorSlice,    \* a SensorSlice built by insertSorted calls alone
    calls,          \* the sensors those calls inserted, in order
    existed,        \* the bool the last insertSorted call returned
    sensorsNames,   \* SensorsNamesFromContext: the override list, "name=address" strings
    adv,            \* the advertisement the scan handler is called with
    handled,        \* the handler has returned
    verdict,        \* what isMiraFloraDevice answered: "none", "accept", "reject"
    handed,         \* the sensor the handler sent on sensorsCh, <<>> if none
    expectedCfg,    \* ExpectedSensorsFromContext
    scanPc,         \* doScan: "idle", "scan" (in device.Scan), "scanned", "closed", "returned"
    scanCtx,        \* Err() of doScan's context: "none", "DeadlineExceeded", "Canceled"
    scanEnd,        \* what device.Scan returned ("none" while it runs)
    receivedAtEnd,  \* the addresses the consumer had received when device.Scan returned
    senders,        \* the sensors of the handler calls blocked in  sensorsCh <- sensor
    chClosed,       \* sensorsCh is closed
    consumerPc,     \* the consumer task: "recv" (in its range), "insert", "exited"
    got,            \* the sensor the consumer received and has not inserted yet
    found,          \* the SensorSlice "sensors" of doScan
    onceDone,       \* expectedSensorsOnce has run its function
    cancels,        \* how often the consumer called cancel()
    scanResult,     \* what doScan returned: the slice and the error
    panicked,       \* a handler call panicked: send on closed channel
    data,           \* XiaomiData.data: the bytes of the backing array and the slice's len
    newResult,      \* what advertisements.New returned: "none", "ok", "error"
    mac,            \* what MacAddress() returned
    capab,          \* what Capabilities() returned
    values,         \* what Values() returned
    header,         \* what Version(), ProductID(), FrameCounter() and flags() returned
    reliable,       \* from now on no connect, read, write or send fails, nothing cancels
    profile,        \* client.profile: the value handles of the discovered characteristics
    clientOp,       \* the operation of client the closure calls
    histPos,        \* the pos argument of HistoryMeasurement (0 for the others)
    callIdx,        \* the read or write of that operation that comes next
    radio,          \* the reads and writes issued on the connection, in order
    opResult,       \* what the operation returned: "none" while it runs
    closureRet,     \* what the closure does after the operation
    loopReturn,     \* what the loop around the closure does after the closure
    firstLength,    \* the length the device reported in the first pass
    emitted,        \* how many Results of the sensor the sink received
    observed,       \* what metrics.observeMeasurement did with the value of Values()
    exporterPc,     \* the Exporter's consumer task: "consuming" or "faulted"
    input,          \* the bytes behind the io.Reader handed to UnmarshalBinary
    decodeKind,     \* which UnmarshalBinary is called: "Measurement" or "Historic"
    measPrior,      \* the readings of the Measurement before the call
    meas,           \* the readings of the Measurement
    deviceTime,     \* HistoricMeasurement.DeviceTime in seconds (NoTime = the zero time)
    decodeErr       \* what UnmarshalBinary returned: "none" before the call

vars == <<command, pc, sensors, nextSensors, idx, historyPointer, historyLength, reportedLength, i,
          deferClose, ctxDone, innerErr, resultErr, sink, watcher, cmdPc, cmdResult,
          dropped, delivered, rtDelivered, passStart, passProgress, lastExit, closeErr,
          loopEvent, prevProgress, sensorSlice, calls, existed, sensorsNames, adv,
          handled, verdict, handed, expectedCfg, scanPc, scanCtx, scanEnd, receivedAtEnd, senders,
          chClosed, consumerPc, got, found, onceDone, cancels, scanResult, panicked,
          data, newResult, mac, capab, values, header, reliable, profile, clientOp,
          histPos, callIdx, radio, opResult, closureRet, loopReturn,
          firstLength, emitted,
          observed, exporterPc,
          input, decodeKind, measPrior, meas, deviceTime, decodeErr>>

coreVars == <<pc, sensors, nextSensors, idx, historyPointer, historyLength, reportedLength,
              i, deferClose,
              innerErr, resultErr, dropped, delivered, rtDelivered, passStart,
              passProgress, lastExit, closeErr, loopEvent, prevProgress>>

outputVars == <<ctxDone, sink, watcher, cmdPc, cmdResult>>

\* what a closure call leaves alone until it returns
callVars == <<sensors, nextSensors, idx, historyPointer, deferClose, innerErr, resultErr,
              dropped, delivered, rtDelivered, passStart, passProgress, lastExit, closeErr,
              loopEvent, prevProgress>>

\* the variables of SensorSlice.insertSorted on its own
insertVars == <<sensorSlice, calls, existed>>

\* the variables of the scan handler on its own
handlerVars == <<adv, handled, verdict, handed>>

\* the variables of a Discovery Session (doScan) on its own
scanVars == <<expectedCfg, scanPc, scanCtx, scanEnd, receivedAtEnd, senders, chClosed,
              consumerPc, got,
              found, onceDone, cancels, scanResult, panicked>>

\* the variables of the advertisement frame decoder on its own
frameVars == <<data, newResult, mac, capab, values, header>>

\* what the commands leave alone
\* the variables of client and of the closure's error handling on their own
clientVars == <<profile, clientOp, histPos, callIdx, radio, opResult, closureRet, loopReturn>>

\* the count of the Results of a run in which nothing fails
drainVars == <<firstLength, emitted>>

\* the Exporter's consumer task on its own
exporterVars == <<observed, exporterPc>>

\* the variables of the binary decoders of Measurement and HistoricMeasurement
decodeVars == <<input, decodeKind, measPrior, meas, deviceTime, decodeErr>>

unitVars == <<insertVars, sensorsNames, handlerVars, scanVars, frameVars, reliable, clientVars,
              drainVars, exporterVars, decodeVars>>

\* what the units on their own leave alone
commandVars == <<command, coreVars, outputVars, reliable>>

(* ------------------------------ helpers ------------------------------- *)

\* the address-ordered slice holding exactly the addresses of S
SortedSeq(S) ==
    CHOOSE q \in [1..Cardinality(S) -> S] :
        /\ \A a \in S : \E k \in 1..Cardinality(S) : q[k] = a
        /\ \A k \in 1..(Cardinality(S) - 1) : q[k] < q[k + 1]

\* The history lengths the device at address a may report: an empty and a long
\* history for the first sensor (a failed read leaves its cursor at any position
\* in between), every short one for the others.
Lengths(a) == IF a = 1 THEN {0, MaxLen} ELSE 0..ShortLen

\* the sensor the current closure call works on
cur == sensors[idx]

\* the calling flow is inside a closure call
InClosure == pc \in {"dial", "discover", "timediff", "histlen", "readentry", "emit",
                     "firmware", "measurement", "rtEmit"}

\* the closure holds a dialled connection
Holding == pc \in {"discover", "timediff", "histlen", "readentry", "emit",
                   "firmware", "measurement", "rtEmit"}

Running == cmdPc = "run" /\ resultErr = "pending"

(* ------------------------- pure computations -------------------------- *)

\* faulty variant of finished: every sensor counts as finished
finishedAlways(hp) == TRUE

\* faulty variant of finished: a sensor is never finished
finishedNever(hp) == FALSE

\* Sensor.finished
finished(hp) == IF hp = NoPointer THEN FALSE ELSE hp = 0

\* filterContextErr of main
filterContextErr(err) == IF err = "Canceled" THEN "nil" ELSE err

\* Err() of a context.WithTimeout(ctx, 30 s) at its creation
NewTimeoutCtx == IF ctxDone THEN "Canceled" ELSE "none"

\* faulty variant of ResumeLength: the pass resumes at the cursor itself
ResumeLengthNoDec(hp, reported) ==
    IF hp # NoPointer THEN hp ELSE reported

\* faulty variant of ResumeLength: the pass starts at the reported length
ResumeLengthReported(hp, reported) == reported

\* "restore pointer": the position the pass starts at (uint16 arithmetic)
ResumeLength(hp, reported) ==
    IF hp # NoPointer THEN (hp - 1) % Uint16 ELSE reported

\* the batch test after an entry was stored (uint16 arithmetic)
BatchFull(hl, pos) == ((hl - pos) % Uint16) > BatchLimit

\* faulty variant of NextIndex: the loop steps over a position
NextIndexSkip(n) == n - 2

\* faulty variant of NextIndex: the loop variable is a uint16
NextIndexWrap(n) == (n - 1) % Uint16

\* the loop step i-- of the entry loop
NextIndex(n) == n - 1

\* faulty variant of FailReturn: the closure hands the radio error to the loop
FailReturnErr == "radioErr"

\* what the closure returns after a failed connect, read, write or decode
FailReturn == "nil"

(* ---------------------- the loops around the closure ------------------ *)

\* HistoricValues after the closure returned nil: keep the unfinished sensor,
\* then go to the next sensor, start the next pass or leave the loop
HistoryLoop(hp, dl) ==
    LET ns   == IF finished(hp[cur]) THEN nextSensors ELSE Append(nextSensors, cur)
        prog == passProgress \/ hp # historyPointer
    IN  /\ historyPointer' = hp
        /\ delivered' = dl
        /\ UNCHANGED rtDelivered
        /\ historyLength' = 0
        /\ reportedLength' = NoLength
        /\ i' = 0
        /\ IF idx < Len(sensors)
           THEN /\ sensors' = sensors
                /\ nextSensors' = ns
                /\ idx' = idx + 1
                /\ pc' = "dial"
                /\ innerErr' = NewTimeoutCtx
                /\ resultErr' = resultErr
                /\ loopEvent' = "next"
                /\ passProgress' = prog
                /\ prevProgress' = TRUE
                /\ passStart' = Len(dl[sensors[idx + 1]])
           ELSE IF ns = <<>>
           THEN /\ sensors' = sensors
                /\ nextSensors' = ns
                /\ idx' = idx
                /\ pc' = "returned"
                /\ innerErr' = "none"
                /\ resultErr' = "nil"
                /\ loopEvent' = "break"
                /\ passProgress' = prog
                /\ prevProgress' = TRUE
                /\ passStart' = Len(dl[cur])
           ELSE /\ sensors' = ns
                /\ nextSensors' = <<>>
                /\ idx' = 1
                /\ pc' = "dial"
                /\ innerErr' = NewTimeoutCtx
                /\ resultErr' = resultErr
                /\ loopEvent' = "newPass"
                /\ passProgress' = FALSE
                /\ prevProgress' = prog
                /\ passStart' = Len(dl[ns[1]])

\* faulty variant of RealtimeLoop: the loop does not step to the next sensor
RealtimeLoopAgain(rl) ==
    /\ rtDelivered' = rl
    /\ UNCHANGED <<historyPointer, delivered, sensors, nextSensors, historyLength,
                   reportedLength, i, passStart, passProgress, prevProgress>>
    /\ idx' = idx
    /\ pc' = "dial"
    /\ innerErr' = NewTimeoutCtx
    /\ resultErr' = resultErr
    /\ loopEvent' = "next"

\* Realtime after the closure returned nil: the next sensor, or return nil
RealtimeLoop(rl) ==
    /\ rtDelivered' = rl
    /\ UNCHANGED <<historyPointer, delivered, sensors, nextSensors, historyLength,
                   reportedLength, i,
                   passStart, passProgress, prevProgress>>
    /\ IF idx < Len(sensors)
       THEN /\ idx' = idx + 1
            /\ pc' = "dial"
            /\ innerErr' = NewTimeoutCtx
            /\ resultErr' = resultErr
            /\ loopEvent' = "next"
       ELSE /\ idx' = idx
            /\ pc' = "returned"
            /\ innerErr' = "none"
            /\ resultErr' = "nil"
            /\ loopEvent' = "break"

\* "if err := func(s *Sensor) error {...}(s); err != nil { return err }"
ClosureErr(err, hp, dl, rl) ==
    /\ pc' = "returned"
    /\ resultErr' = err
    /\ loopEvent' = "abort"
    /\ historyPointer' = hp
    /\ delivered' = dl
    /\ rtDelivered' = rl
    /\ reportedLength' = NoLength
    /\ UNCHANGED <<sensors, nextSensors, idx, historyLength, i, innerErr, passStart,
                   passProgress, prevProgress>>

\* The closure returns ret, leaving the cursors hp and the logs dl and rl.  Its
\* deferred CancelConnection runs if it was registered (its error is only
\* logged); a connection dialled without one is given up open.
Return(ret, why, hp, dl, rl) ==
    /\ lastExit' = why
    /\ deferClose' = FALSE
    /\ IF deferClose
       THEN /\ closeErr' \in BOOLEAN
            /\ dropped' = dropped
       ELSE /\ closeErr' = FALSE
            /\ dropped' = (dropped \/ Holding)
    /\ IF ret = "nil"
       THEN IF command = "history" THEN HistoryLoop(hp, dl) ELSE RealtimeLoop(rl)
       ELSE ClosureErr(ret, hp, dl, rl)

\* the closure fails at a radio step
Fail(why) == Return(FailReturn, why, historyPointer, delivered, rtDelivered)

(* ------------------------------- Init --------------------------------- *)

CommandInit ==
    /\ pc = "scan"
    /\ sensors = <<>>
    /\ nextSensors = <<>>
    /\ idx = 0
    /\ historyPointer = [a \in Addr |-> NoPointer]
    /\ historyLength = 0
    /\ reportedLength = NoLength
    /\ i = 0
    /\ deferClose = FALSE
    /\ ctxDone = FALSE
    /\ innerErr = "none"
    /\ resultErr = "pending"
    /\ sink = "idle"
    /\ watcher = "waiting"
    /\ cmdPc = "run"
    /\ cmdResult = "none"
    /\ dropped = FALSE
    /\ delivered = [a \in Addr |-> <<>>]
    /\ rtDelivered = <<>>
    /\ passStart = 0
    /\ passProgress = FALSE
    /\ lastExit = "none"
    /\ closeErr = FALSE
    /\ loopEvent = "none"
    /\ prevProgress = TRUE
    /\ reliable = FALSE

\* an empty SensorSlice, no insertSorted call made
InsertInit ==
    /\ sensorSlice = <<>>
    /\ calls = <<>>
    /\ existed = FALSE

\* no advertisement handled
HandlerIdle ==
    /\ adv = [octets |-> <<>>, upper |-> FALSE, name |-> <<>>, connectable |-> FALSE]
    /\ handled = FALSE
    /\ verdict = "none"
    /\ handed = <<>>

\* doScan as it starts: the channel made, the consumer task in its range loop
ScanStart ==
    /\ scanCtx = "none"
    /\ scanEnd = "none"
    /\ receivedAtEnd = {}
    /\ senders = {}
    /\ chClosed = FALSE
    /\ consumerPc = "recv"
    /\ got = <<>>
    /\ found = <<>>
    /\ onceDone = FALSE
    /\ cancels = 0
    /\ scanResult = [sensors |-> <<>>, err |-> "pending"]
    /\ panicked = FALSE

\* no Discovery Session on its own
ScanIdle ==
    /\ expectedCfg = 0
    /\ scanPc = "idle"
    /\ ScanStart

\* no accessor of a frame called
FrameStart ==
    /\ newResult = "none"
    /\ mac = [kind |-> "none", val |-> <<>>]
    /\ capab = [kind |-> "none", val |-> <<>>]
    /\ values = [kind |-> "none", val |-> <<>>]
    /\ header = [kind |-> "none", val |-> <<>>]

\* no operation of client called
ClientStart ==
    /\ callIdx = 1
    /\ radio = <<>>
    /\ opResult = "none"
    /\ closureRet = "none"
    /\ loopReturn = "none"

\* no connection
ClientIdle ==
    /\ profile = {}
    /\ clientOp = "none"
    /\ histPos = 0
    /\ ClientStart

\* no Result counted
DrainIdle ==
    /\ firstLength = 0
    /\ emitted = 0

\* the Exporter's consumer has handled nothing
ExporterIdle ==
    /\ observed = [kind |-> "none", val |-> <<>>]
    /\ exporterPc = "consuming"

\* no UnmarshalBinary called
DecodeIdle ==
    /\ input = <<>>
    /\ decodeKind = "none"
    /\ measPrior = <<>>
    /\ meas = <<>>
    /\ deviceTime = <<>>
    /\ decodeErr = "none"

\* no frame to decode
FrameIdle ==
    /\ data = [bytes |-> <<>>, len |-> 0]
    /\ FrameStart

Init ==
    /\ command \in {"history", "realtime"}
    /\ CommandInit
    /\ InsertInit
    /\ sensorsNames = <<>>
    /\ HandlerIdle
    /\ ScanIdle
    /\ FrameIdle
    /\ ClientIdle /\ DrainIdle /\ ExporterIdle /\ DecodeIdle

(* --------------------- HistoricValues and Realtime -------------------- *)

\* doScan: the address-ordered set of the sensors found, or the scan's error.
\* With no sensor both operations return nil at once.
DoScan ==
    /\ Running /\ pc = "scan"
    /\ UNCHANGED unitVars
    /\ UNCHANGED <<nextSensors, historyPointer, historyLength, reportedLength, i,
                   deferClose, dropped,
                   delivered, rtDelivered, passStart, passProgress, lastExit, closeErr,
                   loopEvent, prevProgress>>
    /\ UNCHANGED outputVars
    /\ UNCHANGED command
    /\ \/ /\ resultErr' = "scanErr"
          /\ pc' = "returned"
          /\ UNCHANGED <<sensors, idx, innerErr>>
       \/ \E S \in SUBSET Addr :
            /\ sensors' = SortedSeq(S)
            /\ IF S = {}
               THEN /\ resultErr' = "nil"
                    /\ pc' = "returned"
                    /\ UNCHANGED <<idx, innerErr>>
               ELSE /\ resultErr' = resultErr
                    /\ pc' = "dial"
                    /\ idx' = 1
                    /\ innerErr' = NewTimeoutCtx

\* Sensor.client, first half: device.Dial(ctx, addr); it fails when ctx is done,
\* and may fail otherwise.  The notes on the call before are cleared.
Dial ==
    /\ Running /\ pc = "dial"
    /\ UNCHANGED unitVars
    /\ UNCHANGED outputVars
    /\ UNCHANGED command
    /\ \/ /\ innerErr = "none"
          /\ pc' = "discover"
          /\ lastExit' = "none"
          /\ closeErr' = FALSE
          /\ loopEvent' = "none"
          /\ prevProgress' = TRUE
          /\ UNCHANGED <<sensors, nextSensors, idx, historyPointer, historyLength,
                         reportedLength, i,
                         deferClose, innerErr, resultErr, dropped, delivered, rtDelivered,
                         passStart, passProgress>>
       \/ Fail("dialFail")

\* Sensor.client, second half: DiscoverProfile (Subscribe's failure is only logged).
\* On failure client returns nil, err: the caller gets no client to close.  On
\* success HistoricValues registers the deferred CancelConnection, Realtime none.
Discover ==
    /\ Running /\ pc = "discover"
    /\ UNCHANGED unitVars
    /\ UNCHANGED outputVars
    /\ UNCHANGED command
    /\ \/ /\ deferClose' = (command = "history")
          /\ pc' = IF command = "history" THEN "timediff" ELSE "firmware"
          /\ UNCHANGED <<sensors, nextSensors, idx, historyPointer, historyLength,
                         reportedLength, i,
                         innerErr, resultErr, dropped, delivered, rtDelivered, passStart,
                         passProgress, lastExit, closeErr, loopEvent, prevProgress>>
       \/ Fail("discoverFail")

\* client.DeviceTimeDiff
TimeDiff ==
    /\ Running /\ pc = "timediff"
    /\ UNCHANGED unitVars
    /\ UNCHANGED outputVars
    /\ UNCHANGED command
    /\ \/ /\ pc' = "histlen"
          /\ UNCHANGED <<historyLength, reportedLength, i>>
          /\ UNCHANGED callVars
       \/ Fail("readFail")

\* client.HistoryLength, then "restore pointer" and the entry loop's init
HistLen ==
    /\ Running /\ pc = "histlen"
    /\ UNCHANGED unitVars
    /\ UNCHANGED outputVars
    /\ UNCHANGED command
    /\ \/ \E n \in Lengths(cur) :
            /\ reportedLength' = n
            /\ historyLength' = ResumeLength(historyPointer[cur], n)
            /\ i' = historyLength'
            /\ pc' = "readentry"
            /\ UNCHANGED callVars
       \/ Fail("readFail")

\* client.HistoryMeasurement(uint16(i))
ReadEntry ==
    /\ Running /\ pc = "readentry"
    /\ UNCHANGED unitVars
    /\ UNCHANGED outputVars
    /\ UNCHANGED command
    /\ \/ /\ pc' = "emit"
          /\ reportedLength' = NoLength
          /\ UNCHANGED <<historyLength, i>>
          /\ UNCHANGED callVars
       \/ Fail("readFail")

\* The select's send case: the sink takes the Result and writes it (then it is
\* back in its range loop, or at "errCh <- err"); the position is stored, then
\* the batch test and the loop step.
SendResult ==
    /\ Running /\ pc = "emit"
    /\ UNCHANGED unitVars
    /\ sink = "idle"
    /\ sink' \in {"idle", "reporting"}
    /\ UNCHANGED <<ctxDone, watcher, cmdPc, cmdResult>>
    /\ UNCHANGED command
    /\ LET pos == i % Uint16
           hp  == [historyPointer EXCEPT ![cur] = pos]
           dl  == [delivered EXCEPT ![cur] = Append(@, pos)]
       IN  IF BatchFull(historyLength, pos)
           THEN Return("nil", "cap", hp, dl, rtDelivered)
           ELSE IF NextIndex(i) >= 0
           THEN /\ i' = NextIndex(i)
                /\ pc' = "readentry"
                /\ historyPointer' = hp
                /\ delivered' = dl
                /\ passProgress' = TRUE
                /\ UNCHANGED <<sensors, nextSensors, idx, historyLength, reportedLength,
                               deferClose, innerErr, resultErr, dropped, rtDelivered, passStart,
                               lastExit, closeErr, loopEvent, prevProgress>>
           ELSE Return("nil", "drained", hp, dl, rtDelivered)

\* faulty variant of AbortEmit: the position is stored before the select
AbortEmitStoresPos ==
    /\ Running /\ pc = "emit"
    /\ UNCHANGED unitVars
    /\ innerErr # "none"
    /\ UNCHANGED outputVars
    /\ UNCHANGED command
    /\ Return(innerErr, "ctxAbort", [historyPointer EXCEPT ![cur] = i % Uint16],
              delivered, rtDelivered)

\* the select's ctx.Done() case: return ctx.Err()
AbortEmit ==
    /\ Running /\ pc = "emit"
    /\ UNCHANGED unitVars
    /\ innerErr # "none"
    /\ UNCHANGED outputVars
    /\ UNCHANGED command
    /\ Return(innerErr, "ctxAbort", historyPointer, delivered, rtDelivered)

\* client.Firmware
Firmware ==
    /\ Running /\ pc = "firmware"
    /\ UNCHANGED unitVars
    /\ UNCHANGED outputVars
    /\ UNCHANGED command
    /\ \/ /\ pc' = "measurement"
          /\ UNCHANGED <<historyLength, reportedLength, i>>
          /\ UNCHANGED callVars
       \/ Fail("readFail")

\* client.Measurement
Measurement ==
    /\ Running /\ pc = "measurement"
    /\ UNCHANGED unitVars
    /\ UNCHANGED outputVars
    /\ UNCHANGED command
    /\ \/ /\ pc' = "rtEmit"
          /\ UNCHANGED <<historyLength, reportedLength, i>>
          /\ UNCHANGED callVars
       \/ Fail("readFail")

\* Realtime's select, send case
RtSend ==
    /\ Running /\ pc = "rtEmit"
    /\ UNCHANGED unitVars
    /\ sink = "idle"
    /\ sink' \in {"idle", "reporting"}
    /\ UNCHANGED <<ctxDone, watcher, cmdPc, cmdResult>>
    /\ UNCHANGED command
    /\ Return("nil", "sent", historyPointer, delivered, Append(rtDelivered, cur))

\* Realtime's select, ctx.Done() case
RtAbort ==
    /\ Running /\ pc = "rtEmit"
    /\ UNCHANGED unitVars
    /\ innerErr # "none"
    /\ UNCHANGED outputVars
    /\ UNCHANGED command
    /\ Return(innerErr, "ctxAbort", historyPointer, delivered, rtDelivered)

\* The 30 s timer of the closure's context fires.  Only Dial and the two selects
\* read that context; Dial may fail at any time, so the expiry is taken where a
\* select can see it.
Timeout ==
    /\ Running /\ pc \in {"emit", "rtEmit"}
    /\ UNCHANGED unitVars
    /\ innerErr = "none"
    /\ innerErr' = "DeadlineExceeded"
    /\ UNCHANGED <<pc, sensors, nextSensors, idx, historyPointer, historyLength,
                   reportedLength, i,
                   deferClose, resultErr, dropped, delivered, rtDelivered, passStart,
                   passProgress, lastExit, closeErr, loopEvent, prevProgress>>
    /\ UNCHANGED outputVars
    /\ UNCHANGED command

(* ------------------------ the output and main ------------------------- *)

\* setupOutput's task: "err = <-errCh" meets the sink's "errCh <- err" (the sink
\* breaks out of its loop), then "if err != nil { cancel() }" cancels the run's
\* context and the closure's context under it; the task goes on to
\* "errResult <- err".
WatcherRecv ==
    /\ cmdPc # "exit"
    /\ UNCHANGED unitVars
    /\ watcher = "waiting"
    /\ sink = "reporting"
    /\ watcher' = "sending"
    /\ sink' = "exited"
    /\ ctxDone' = TRUE
    /\ innerErr' = IF InClosure /\ innerErr = "none" THEN "Canceled" ELSE innerErr
    /\ UNCHANGED <<cmdPc, cmdResult>>
    /\ UNCHANGED <<pc, sensors, nextSensors, idx, historyPointer, historyLength,
                   reportedLength, i,
                   deferClose, resultErr, dropped, delivered, rtDelivered, passStart,
                   passProgress, lastExit, closeErr, loopEvent, prevProgress>>
    /\ UNCHANGED command

\* the command's Action after the core returned:
\* "if err := filterContextErr(m.HistoricValues(ctx)); err != nil { return err }"
CmdReturn ==
    /\ cmdPc = "run"
    /\ UNCHANGED unitVars
    /\ resultErr # "pending"
    /\ IF filterContextErr(resultErr) # "nil"
       THEN /\ cmdPc' = "exit"
            /\ cmdResult' = filterContextErr(resultErr)
       ELSE /\ cmdPc' = "finish"
            /\ cmdResult' = cmdResult
    /\ UNCHANGED <<ctxDone, sink, watcher>>
    /\ UNCHANGED coreVars
    /\ UNCHANGED command

\* "return finish()": "<-errResult" meets the task's "errResult <- err"
Finish ==
    /\ cmdPc = "finish"
    /\ UNCHANGED unitVars
    /\ watcher = "sending"
    /\ watcher' = "done"
    /\ cmdPc' = "exit"
    /\ cmdResult' = "sinkErr"
    /\ UNCHANGED <<ctxDone, sink>>
    /\ UNCHANGED coreVars
    /\ UNCHANGED command

Next ==
    \/ DoScan
    \/ Dial
    \/ Discover
    \/ TimeDiff
    \/ HistLen
    \/ ReadEntry
    \/ SendResult
    \/ AbortEmit
    \/ Firmware
    \/ Measurement
    \/ RtSend
    \/ RtAbort
    \/ Timeout
    \/ WatcherRecv
    \/ CmdReturn
    \/ Finish

Spec == Init /\ [][Next]_vars

(* ------------- HistoricValues once the environment has settled -------- *)

\* a step in which a connect, a read or a write fails, an emission is aborted,
\* the sink's write fails, or the run's context is cancelled
FaultStep ==
    \/ /\ pc \in {"dial", "discover", "timediff", "histlen", "readentry", "firmware",
                  "measurement"}
       /\ lastExit' \in {"dialFail", "discoverFail", "readFail"}
       /\ pc' \in {"dial", "returned"}
    \/ pc \in {"emit", "rtEmit"} /\ lastExit' = "ctxAbort" /\ pc' = "returned"
    \/ sink = "idle" /\ sink' = "reporting"
    \/ ~ctxDone /\ ctxDone'

\* the step A, which is no FaultStep once the environment has settled
Reliably(A) == A /\ (reliable => ~FaultStep)

\* From here on the radio, the sink and the context do not fail: the sensors
\* are discovered, the operation runs, the sink is in its range loop.
SettleDown ==
    /\ ~reliable
    /\ Running /\ pc \notin {"scan", "returned"}
    /\ ~ctxDone /\ sink = "idle"
    /\ reliable' = TRUE
    /\ UNCHANGED <<command, coreVars, outputVars>>
    /\ UNCHANGED <<insertVars, sensorsNames, handlerVars, scanVars, frameVars, clientVars,
                   drainVars, exporterVars, decodeVars>>

LiveNext ==
    \/ SettleDown
    \/ Reliably(DoScan)
    \/ Reliably(Dial)
    \/ Reliably(Discover)
    \/ Reliably(TimeDiff)
    \/ Reliably(HistLen)
    \/ Reliably(ReadEntry)
    \/ Reliably(SendResult)
    \/ Reliably(AbortEmit)
    \/ Reliably(Timeout)
    \/ Reliably(WatcherRecv)
    \/ Reliably(CmdReturn)
    \/ Reliably(Finish)

LiveSpecInit ==
    /\ command = "history" /\ CommandInit
    /\ InsertInit
    /\ sensorsNames = <<>> /\ HandlerIdle /\ ScanIdle /\ FrameIdle /\ ClientIdle /\ DrainIdle
    /\ ExporterIdle /\ DecodeIdle

\* The calling flow, the sink and the task of setupOutput run whenever they can.
LiveSpec == LiveSpecInit /\ [][LiveNext]_vars /\ WF_vars(LiveNext)

(* --------------------- SensorSlice.insertSorted ----------------------- *)

\* Address strings are sequences of byte values: "a", "b", "c" and "ab".
AddrStrings == {<<97>>, <<98>>, <<99>>, <<97, 98>>}

\* the sensors handed to insertSorted: an advertisement's address and a name
TestSensors == [addr : AddrStrings, name : {"", "replace"}]

\* a < b on Go strings: byte by byte, a proper prefix is smaller
RECURSIVE StrLess(_, _)
StrLess(a, b) ==
    IF b = <<>> THEN FALSE
    ELSE IF a = <<>> THEN TRUE
    ELSE IF Head(a) # Head(b) THEN Head(a) < Head(b)
    ELSE StrLess(Tail(a), Tail(b))

\* v of insertSorted: the address string of a sensor
v(s) == s.addr

\* faulty variant of Search: the search always answers the end of the slice
SearchEnd(lo, hi, s, e) == hi

\* sort.Search(len(s), func(i) { return v(s[i]) >= v(e) }) by bisection of
\* [lo, hi); indexes count from 0 as in the source
RECURSIVE Search(_, _, _, _)
Search(lo, hi, s, e) ==
    IF lo < hi
    THEN LET h == (lo + hi) \div 2
         IN  IF StrLess(v(s[h + 1]), v(e))
             THEN Search(h + 1, hi, s, e)
             ELSE Search(lo, h, s, e)
    ELSE lo

\* faulty variant of insertSorted: a known address is inserted once more
insertSortedNoReplace(s, e) ==
    IF Len(s) = 0
    THEN <<(<<e>>), FALSE>>
    ELSE LET k == Search(0, Len(s), s, e)
         IN  <<SubSeq(s, 1, k) \o <<e>> \o SubSeq(s, k + 1, Len(s)), FALSE>>

\* SensorSlice.insertSorted: the new slice and the bool "existed"
insertSorted(s, e) ==
    IF Len(s) = 0
    THEN <<(<<e>>), FALSE>>
    ELSE LET k == Search(0, Len(s), s, e)
         IN  IF Len(s) > k /\ v(s[k + 1]) = v(e)
             THEN <<[s EXCEPT ![k + 1] = e], TRUE>>
             ELSE <<SubSeq(s, 1, k) \o <<e>> \o SubSeq(s, k + 1, Len(s)), FALSE>>

\* one call  s, existed = s.insertSorted(e)
InsertCall ==
    /\ Len(calls) < MaxInserts
    /\ UNCHANGED commandVars
    /\ UNCHANGED <<sensorsNames, handlerVars, scanVars, frameVars, clientVars, drainVars,
                   exporterVars, decodeVars>>
    /\ \E e \in TestSensors :
         /\ sensorSlice' = insertSorted(sensorSlice, e)[1]
         /\ existed' = insertSorted(sensorSlice, e)[2]
         /\ calls' = Append(calls, e)

InsertNext == InsertCall

\* the empty slice; the command and the other units stand still
InsertSpecInit ==
    /\ command = "history" /\ CommandInit
    /\ InsertInit
    /\ sensorsNames = <<>> /\ HandlerIdle /\ ScanIdle /\ FrameIdle /\ ClientIdle /\ DrainIdle
    /\ ExporterIdle /\ DecodeIdle

InsertSpec == InsertSpecInit /\ [][InsertNext]_vars

(* ------------------ the scan handler of doScanReal -------------------- *)

\* Strings are sequences of byte values.
deviceName == <<70, 108, 111, 119, 101, 114, 32, 99, 97, 114, 101>>  \* "Flower care"

addressPrefix == <<67, 52, 58, 55, 67, 58, 56, 68>>                  \* "C4:7C:8D"

\* the vendor prefix as octets
VendorOctets == <<196, 124, 141>>

\* the first three octets of the devices the radio hears: the vendor's, one
\* that differs from it in the last digit, a foreign one
Prefixes == {VendorOctets, <<196, 124, 142>>, <<170, 187, 204>>}

\* the broadcast names: "Flower care", "flower care", none
LocalNames == {deviceName, <<102, 108, 111, 119, 101, 114, 32, 99, 97, 114, 101>>, <<>>}

\* the advertisements the radio delivers; upper tells the letter case in which
\* Addr().String() prints the address
Advs == [octets : {p \o <<0, 0, n>> : p \in Prefixes, n \in 1..NumDevices},
         upper : BOOLEAN, name : LocalNames, connectable : BOOLEAN]

\* one hexadecimal digit as a byte
HexDigit(d, upper) ==
    IF d < 10 THEN 48 + d ELSE IF upper THEN 55 + d ELSE 87 + d

\* Addr().String(): the octets as two hexadecimal digits each, joined by ":"
FormatAddr(o, upper) ==
    [k \in 1..(3 * Len(o) - 1) |->
        IF k % 3 = 0 THEN 58
        ELSE IF k % 3 = 1 THEN HexDigit(o[(k + 2) \div 3] \div 16, upper)
        ELSE HexDigit(o[(k + 1) \div 3] % 16, upper)]

AddrString(a) == FormatAddr(a.octets, a.upper)

\* faulty variant of ToUpper: the string is left as it is
ToUpperNone(s) == s

\* strings.ToUpper on bytes
ToUpper(s) == [k \in DOMAIN s |-> IF s[k] \in 97..122 THEN s[k] - 32 ELSE s[k]]

\* strings.HasPrefix
HasPrefix(s, prefix) ==
    Len(s) >= Len(prefix) /\ SubSeq(s, 1, Len(prefix)) = prefix

\* faulty variant of EqualFold: the letter case must agree
EqualExact(s, u) == s = u

\* strings.EqualFold on bytes
EqualFold(s, u) ==
    /\ Len(s) = Len(u)
    /\ \A k \in 1..Len(s) :
         (IF s[k] \in 65..90 THEN s[k] + 32 ELSE s[k])
             = (IF u[k] \in 65..90 THEN u[k] + 32 ELSE u[k])

\* strings.SplitN(s, "=", 2): the parts before and after the first "="
SplitN2(s) ==
    IF \E k \in 1..Len(s) : s[k] = 61
    THEN LET k == CHOOSE j \in 1..Len(s) : s[j] = 61 /\ \A m \in 1..(j - 1) : s[m] # 61
         IN  <<SubSeq(s, 1, k - 1), SubSeq(s, k + 1, Len(s))>>
    ELSE <<s>>

\* isDeclaredSensor: <<TRUE, name>> of the first entry whose address matches
RECURSIVE isDeclaredSensor(_, _)
isDeclaredSensor(names, addr) ==
    IF names = <<>> THEN <<FALSE, <<>>>>
    ELSE LET parts == SplitN2(Head(names))
         IN  IF Len(parts) # 2 THEN isDeclaredSensor(Tail(names), addr)
             ELSE IF EqualFold(addr, parts[2]) THEN <<TRUE, parts[1]>>
             ELSE isDeclaredSensor(Tail(names), addr)

\* MiFlora.newSensor: the Sensor as its address string and its name
newSensor(names, a) ==
    [addr |-> AddrString(a),
     name |-> IF isDeclaredSensor(names, AddrString(a))[1]
              THEN isDeclaredSensor(names, AddrString(a))[2]
              ELSE a.name]

isMiraFloraDevice(a) ==
    IF ~a.connectable THEN FALSE
    ELSE IF a.name = deviceName THEN TRUE
    ELSE IF HasPrefix(ToUpper(AddrString(a)), addressPrefix) THEN TRUE
    ELSE FALSE

\* the handler of doScanReal: what it sends on sensorsCh, <<>> if it returns early
handler(names, a) ==
    IF ~isMiraFloraDevice(a) THEN <<>>
    ELSE IF Len(names) > 0 /\ ~isDeclaredSensor(names, AddrString(a))[1] THEN <<>>
    ELSE <<newSensor(names, a)>>

\* an entry "name=address" of the override list
OverrideEntry(name, o, upper) == name \o <<61>> \o FormatAddr(o, upper)

\* the entries an operator gives: "k" alone, "k" and "m" for the first vendor
\* device in either letter case, "k" for a foreign device
OverrideEntries ==
    {<<107>>,
     OverrideEntry(<<107>>, VendorOctets \o <<0, 0, 1>>, TRUE),
     OverrideEntry(<<109>>, VendorOctets \o <<0, 0, 1>>, FALSE),
     OverrideEntry(<<107>>, <<170, 187, 204, 0, 0, 1>>, FALSE)}

OverrideLists == UNION {[1..n -> OverrideEntries] : n \in 0..MaxOverrides}

HandlerInit ==
    /\ sensorsNames \in OverrideLists
    /\ adv \in Advs
    /\ handled = FALSE
    /\ verdict = "none"
    /\ handed = <<>>

\* the radio calls the handler with adv
HandleAdv ==
    /\ ~handled
    /\ handled' = TRUE
    /\ verdict' = IF isMiraFloraDevice(adv) THEN "accept" ELSE "reject"
    /\ handed' = handler(sensorsNames, adv)
    /\ UNCHANGED <<adv, sensorsNames>>
    /\ UNCHANGED commandVars
    /\ UNCHANGED <<insertVars, scanVars, frameVars, clientVars, drainVars, exporterVars,
                   decodeVars>>

HandlerNext == HandleAdv

\* any advertisement and any override list; the rest stands still
HandlerSpecInit ==
    /\ command = "history" /\ CommandInit
    /\ InsertInit
    /\ HandlerInit /\ ScanIdle /\ FrameIdle /\ ClientIdle /\ DrainIdle /\ ExporterIdle /\ DecodeIdle

HandlerSpec == HandlerSpecInit /\ [][HandlerNext]_vars

(* ---------------------- doScan and doScanReal ------------------------- *)

\* the override lists of the sessions: none, one entry, an entry that names no
\* address before one that does, two entries
ScanLists ==
    {<<>>,
     <<OverrideEntry(<<107>>, VendorOctets \o <<0, 0, 1>>, TRUE)>>,
     <<(<<107>>), OverrideEntry(<<107>>, VendorOctets \o <<0, 0, 1>>, TRUE)>>,
     <<OverrideEntry(<<107>>, VendorOctets \o <<0, 0, 1>>, TRUE),
       OverrideEntry(<<107>>, <<170, 187, 204, 0, 0, 1>>, FALSE)>>}

\* the advertisements of the sessions: the vendor's devices and a foreign
\* one, all named "Flower care", and a broadcast that is not connectable
ScanAdvs ==
    {a \in Advs : /\ ~a.upper /\ a.name = deviceName
                  /\ \/ SubSeq(a.octets, 1, 3) = VendorOctets
                     \/ a.octets = <<170, 187, 204, 0, 0, 1>>
                  /\ a.connectable \/ a.octets[6] = 1}

\* faulty variant of expectedSensors: the override list is not looked at
expectedSensorsCfg == expectedCfg

\* the target count of doScan
expectedSensors ==
    IF Len(sensorsNames) > 0 THEN Len(sensorsNames) ELSE expectedCfg

\* faulty variant of OnceDo: the function runs at every call
OnceDoAlways(done) == TRUE

\* sync.Once.Do runs its function unless it has run
OnceDo(done) == ~done

\* faulty variant of ScanFailed: every error of the scan is a failure
ScanFailedAny(err) == err # "nil"

\* the error test of doScanReal after device.Scan
ScanFailed(err) ==
    err # "nil" /\ err # "DeadlineExceeded" /\ err # "Canceled"

ScanInit ==
    /\ sensorsNames \in ScanLists
    /\ expectedCfg \in -1..MaxExpected
    /\ scanPc = "scan"
    /\ ScanStart

\* the variables a step of the session's tasks leaves alone
ScanFrame == /\ UNCHANGED commandVars
             /\ UNCHANGED <<insertVars, handlerVars, frameVars, sensorsNames, expectedCfg,
                            clientVars, drainVars, exporterVars, decodeVars>>

\* the addresses of the sensor events the consumer has received from sensorsCh
Received ==
    {found[k].addr : k \in 1..Len(found)} \cup {got[k].addr : k \in 1..Len(got)}

\* The radio calls the handler with an advertisement while the scan runs; a
\* call that passes the tests blocks in its send on the unbuffered channel.
Advertise ==
    /\ scanPc = "scan" /\ ~panicked
    /\ \E a \in ScanAdvs :
         senders' = senders \cup {handler(sensorsNames, a)[k] :
                                     k \in 1..Len(handler(sensorsNames, a))}
    /\ ScanFrame
    /\ UNCHANGED <<scanPc, scanCtx, scanEnd, receivedAtEnd, chClosed, consumerPc, got, found,
                   onceDone, cancels, scanResult, panicked>>

\* the consumer's  for s := range sensorsCh  receives from a blocked sender
ConsumerRecv ==
    /\ consumerPc = "recv" /\ ~chClosed /\ ~panicked
    /\ \E s \in senders :
         /\ senders' = senders \ {s}
         /\ got' = <<s>>
    /\ consumerPc' = "insert"
    /\ ScanFrame
    /\ UNCHANGED <<scanPc, scanCtx, scanEnd, receivedAtEnd, chClosed, found, onceDone, cancels,
                   scanResult, panicked>>

\* the body of the consumer's loop: insertSorted, then the target test and the
\* guarded cancel()
ConsumerInsert ==
    /\ consumerPc = "insert" /\ ~panicked
    /\ found' = insertSorted(found, got[1])[1]
    /\ got' = <<>>
    /\ consumerPc' = "recv"
    /\ IF expectedSensors > 0 /\ Len(found') >= expectedSensors /\ OnceDo(onceDone)
       THEN /\ onceDone' = TRUE
            /\ cancels' = cancels + 1
            /\ scanCtx' = IF scanCtx = "none" THEN "Canceled" ELSE scanCtx
       ELSE UNCHANGED <<onceDone, cancels, scanCtx>>
    /\ ScanFrame
    /\ UNCHANGED <<scanPc, scanEnd, receivedAtEnd, senders, chClosed, scanResult, panicked>>

\* the range loop ends on the closed channel
ConsumerExit ==
    /\ consumerPc = "recv" /\ chClosed /\ ~panicked
    /\ consumerPc' = "exited"
    /\ ScanFrame
    /\ UNCHANGED <<scanPc, scanCtx, scanEnd, receivedAtEnd, senders, chClosed, got, found,
                   onceDone, cancels, scanResult, panicked>>

\* the timer of context.WithTimeout(ctx, ScanTimeout) fires
ScanDeadline ==
    /\ scanPc = "scan" /\ scanCtx = "none" /\ ~panicked
    /\ scanCtx' = "DeadlineExceeded"
    /\ ScanFrame
    /\ UNCHANGED <<scanPc, scanEnd, receivedAtEnd, senders, chClosed, consumerPc, got, found,
                   onceDone, cancels, scanResult, panicked>>

\* device.Scan returns the context's error once the context is done
ScanReturn ==
    /\ scanPc = "scan" /\ scanCtx # "none" /\ ~panicked
    /\ scanEnd' = scanCtx
    /\ receivedAtEnd' = Received
    /\ scanPc' = "scanned"
    /\ ScanFrame
    /\ UNCHANGED <<scanCtx, senders, chClosed, consumerPc, got, found, onceDone, cancels,
                   scanResult, panicked>>

\* HCI.Send of the passive mode or device.Scan fails with an error of the radio
ScanFail ==
    /\ scanPc = "scan" /\ ~panicked
    /\ scanEnd' = "radioErr"
    /\ receivedAtEnd' = Received
    /\ scanPc' = "scanned"
    /\ ScanFrame
    /\ UNCHANGED <<scanCtx, senders, chClosed, consumerPc, got, found, onceDone, cancels,
                   scanResult, panicked>>

\* doScanReal after the scan: on a failure it returns the error and doScan
\* returns nil, err (its deferred cancel() runs); otherwise it closes sensorsCh
ScanRealReturn ==
    /\ scanPc = "scanned" /\ ~panicked
    /\ IF ScanFailed(scanEnd)
       THEN /\ scanPc' = "returned"
            /\ scanResult' = [sensors |-> <<>>, err |-> "scanErr"]
            /\ scanCtx' = IF scanCtx = "none" THEN "Canceled" ELSE scanCtx
            /\ UNCHANGED chClosed
       ELSE /\ scanPc' = "closed"
            /\ chClosed' = TRUE
            /\ UNCHANGED <<scanResult, scanCtx>>
    /\ ScanFrame
    /\ UNCHANGED <<scanEnd, receivedAtEnd, senders, consumerPc, got, found, onceDone, cancels,
                   panicked>>

\* doScan returns sensors, nil.  It reads the slice while the consumer may be
\* writing it: the read yields the slice before or after that insert.
DoScanReturn ==
    /\ scanPc = "closed" /\ ~panicked
    /\ scanPc' = "returned"
    /\ \E read \in {found} \cup
                   (IF consumerPc = "insert"
                    THEN {insertSorted(found, got[1])[1]} ELSE {}) :
         scanResult' = [sensors |-> read, err |-> "nil"]
    /\ ScanFrame
    /\ UNCHANGED <<scanCtx, scanEnd, receivedAtEnd, senders, chClosed, consumerPc, got, found,
                   onceDone, cancels, panicked>>

\* a handler call blocked in its send finds the channel closed
SendOnClosed ==
    /\ chClosed /\ senders # {} /\ ~panicked
    /\ panicked' = TRUE
    /\ ScanFrame
    /\ UNCHANGED <<scanPc, scanCtx, scanEnd, receivedAtEnd, senders, chClosed, consumerPc, got,
                   found, onceDone, cancels, scanResult>>

ScanNext ==
    \/ Advertise
    \/ ConsumerRecv
    \/ ConsumerInsert
    \/ ConsumerExit
    \/ ScanDeadline
    \/ ScanReturn
    \/ ScanFail
    \/ ScanRealReturn
    \/ DoScanReturn
    \/ SendOnClosed

\* any configuration of the session; the rest stands still
ScanSpecInit ==
    /\ command = "history" /\ CommandInit
    /\ InsertInit /\ HandlerIdle /\ FrameIdle /\ ClientIdle /\ DrainIdle /\ ExporterIdle
    /\ DecodeIdle
    /\ ScanInit

ScanSpec == ScanSpecInit /\ [][ScanNext]_vars

(* ------------------- advertisements: the frame decoder ---------------- *)

flagMacAddress == 16

flagCapabilities == 32

flagMeasurment == 64

measurementTemperature == 4100

measurementBrightness == 4103

measurementMoisture == 4104

measurementFertility == 4105

measurementBattery == 4106

\* the least length New accepts
MinFrameLen == 5

\* the measurement-kind ids of the sub-records the radio delivers
MeasurementIds == {measurementTemperature, measurementBrightness, measurementMoisture,
                   measurementFertility, measurementBattery}

\* the bytes a sub-record's value is cut from
ValueBytes == <<246, 255, 1, 2>>

\* A whole frame: the frame control word (version 2, "new factory" and the
\* flags fl), product id 0x0098, a frame counter, then the fields fl announces.
Frame(fl, id, length) ==
    <<1 + fl, 32, 152, 0, 7>>
    \o (IF (fl \div flagMacAddress) % 2 = 1 THEN <<17, 34, 51, 141, 124, 196>> ELSE <<>>)
    \o (IF (fl \div flagCapabilities) % 2 = 1 THEN <<13>> ELSE <<>>)
    \o (IF (fl \div flagMeasurment) % 2 = 1
        THEN <<id % 256, id \div 256, length>> \o SubSeq(ValueBytes, 1, length)
        ELSE <<>>)

\* the frames of TestParse: 71209800da795d658d7cc40d0410021201 and its like
ParseFrame(counter, id, payload) ==
    <<113, 32, 152, 0, counter, 121, 93, 101, 141, 124, 196, 13, id % 256, id \div 256,
      Len(payload)>> \o payload

TestFrames ==
    {ParseFrame(218, measurementTemperature, <<18, 1>>),
     ParseFrame(218, measurementTemperature, <<231, 255>>),
     ParseFrame(217, measurementFertility, <<46, 0>>),
     ParseFrame(216, measurementMoisture, <<13>>),
     ParseFrame(239, measurementBrightness, <<254, 76, 0>>)}

\* a frame of version 5 with the high flag bits set and product id 0x1234
OtherHeaderFrame == <<113, 95, 52, 18, 255, 121, 93, 101, 141, 124, 196, 13, 8, 16, 1, 200>>

Frames ==
    {Frame(fl, id, length) :
        fl \in {0, 16, 32, 48, 64, 80, 96, 112}, id \in MeasurementIds,
        length \in 0..MaxDataLen}
    \cup TestFrames \cup {OtherHeaderFrame}

\* The buffers handed to New: a frame cut to len bytes, in a backing array that
\* ends with the slice or holds the whole frame.
Buffers ==
    UNION {{[bytes |-> SubSeq(f, 1, c), len |-> n] : c \in {n, Len(f)}} :
           <<f, n>> \in {<<g, m>> \in Frames \X (0..(16 + MaxDataLen)) : m <= Len(g)}}

\* x.data[k] where the index check has passed
At(d, k) == d.bytes[k + 1]

\* cap(x.data)
Cap(d) == Len(d.bytes)

Nil == [kind |-> "nil", val |-> <<>>]

\* a run-time panic: index or slice bounds out of range, or panic(...)
Fault(why) == [kind |-> "fault", val |-> <<why>>]

Value(x) == [kind |-> "value", val |-> x]

\* XiaomiData.flags
flags(d) == (At(d, 0) + 256 * At(d, 1)) % 4096

hasMacAddress(d) == (flags(d) \div flagMacAddress) % 2 # 0

hasCapabilities(d) == (flags(d) \div flagCapabilities) % 2 # 0

hasMeasurement(d) == (flags(d) \div flagMeasurment) % 2 # 0

\* XiaomiData.Version
Version(d) == ((At(d, 0) + 256 * At(d, 1)) \div 4096) % 256

\* XiaomiData.ProductID
ProductID(d) == At(d, 2) + 256 * At(d, 3)

\* XiaomiData.FrameCounter
FrameCounter(d) == At(d, 4)

macAddressOffset == 5

\* faulty variant of MacAddress: the bytes are taken in the frame's order
MacAddressForward(d) ==
    IF ~hasMacAddress(d) THEN Nil
    ELSE IF macAddressOffset + 5 >= d.len THEN Fault("index out of range")
    ELSE Value([pos \in 1..6 |-> At(d, macAddressOffset + (pos - 1))])

\* XiaomiData.MacAddress: the first byte read is x.data[offset + 5]
MacAddress(d) ==
    IF ~hasMacAddress(d) THEN Nil
    ELSE IF macAddressOffset + 5 >= d.len THEN Fault("index out of range")
    ELSE Value([pos \in 1..6 |-> At(d, macAddressOffset + (5 - (pos - 1)))])

capabiltiesOffset(d) ==
    IF hasMacAddress(d) THEN macAddressOffset + 6 ELSE macAddressOffset

\* XiaomiData.Capabilities
Capabilities(d) ==
    IF capabiltiesOffset(d) >= d.len THEN Fault("index out of range")
    ELSE Value(<<At(d, capabiltiesOffset(d))>>)

valuesOffset(d) ==
    IF hasCapabilities(d) THEN capabiltiesOffset(d) + 1 ELSE capabiltiesOffset(d)

\* binary.LittleEndian.Uint16
Uint16LE(b) == b[1] + 256 * b[2]

\* var measurement model.Measurement: no reading is set (<<>> is a nil pointer)
NoReading ==
    [Temperature |-> <<>>, Brightness |-> <<>>, Moisture |-> <<>>, Conductivity |-> <<>>]

\* faulty variant of Int16: the value stays unsigned
Int16Unsigned(u) == u

\* int16(u)
Int16(u) == IF u >= 32768 THEN u - 65536 ELSE u

\* the switch of Values over the measurement-kind id
Reading(id, rec) ==
    CASE id = measurementTemperature ->
            IF Len(rec) < 2 THEN Fault("index out of range")
            ELSE Value([NoReading EXCEPT !.Temperature = <<Int16(Uint16LE(rec))>>])
      [] id = measurementBrightness ->
            IF Len(rec) < 2 THEN Fault("index out of range")
            ELSE Value([NoReading EXCEPT !.Brightness = <<Uint16LE(rec)>>])
      [] id = measurementMoisture ->
            IF Len(rec) < 1 THEN Fault("index out of range")
            ELSE Value([NoReading EXCEPT !.Moisture = <<rec[1]>>])
      [] id = measurementFertility ->
            IF Len(rec) < 2 THEN Fault("index out of range")
            ELSE Value([NoReading EXCEPT !.Conductivity = <<Uint16LE(rec)>>])
      [] OTHER -> Fault("unknown value")

\* XiaomiData.Values.  A slice expression is checked against the capacity, an
\* index against the length.
Values(d) ==
    IF ~hasMeasurement(d) THEN Nil
    ELSE LET offset == valuesOffset(d)
         IN  IF offset + 2 > Cap(d) THEN Fault("slice bounds out of range")
             ELSE IF offset + 2 >= d.len THEN Fault("index out of range")
             ELSE LET id     == At(d, offset) + 256 * At(d, offset + 1)
                      length == At(d, offset + 2)
                  IN  IF offset + 3 + length > Cap(d)
                      THEN Fault("slice bounds out of range")
                      ELSE Reading(id, [k \in 1..length |-> At(d, offset + 2 + k)])

FrameInit ==
    /\ data \in Buffers
    /\ FrameStart

\* what a call on the frame leaves alone
FrameFrame == /\ UNCHANGED commandVars
              /\ UNCHANGED <<insertVars, handlerVars, scanVars, sensorsNames, data, clientVars,
                             drainVars, exporterVars, decodeVars>>

Faulted == "fault" \in {mac.kind, capab.kind, values.kind}

\* advertisements.New(d)
CallNew ==
    /\ newResult = "none"
    /\ newResult' = IF data.len < MinFrameLen THEN "error" ELSE "ok"
    /\ FrameFrame
    /\ UNCHANGED <<mac, capab, values, header>>

\* the accessors of the fixed part of the frame
CallHeader ==
    /\ newResult = "ok" /\ ~Faulted /\ header.kind = "none"
    /\ header' = Value([version |-> Version(data), productID |-> ProductID(data),
                        frameCounter |-> FrameCounter(data), flags |-> flags(data)])
    /\ FrameFrame
    /\ UNCHANGED <<newResult, mac, capab, values>>

CallMacAddress ==
    /\ newResult = "ok" /\ ~Faulted /\ mac.kind = "none"
    /\ mac' = MacAddress(data)
    /\ FrameFrame
    /\ UNCHANGED <<newResult, capab, values, header>>

CallCapabilities ==
    /\ newResult = "ok" /\ ~Faulted /\ capab.kind = "none"
    /\ capab' = Capabilities(data)
    /\ FrameFrame
    /\ UNCHANGED <<newResult, mac, values, header>>

CallValues ==
    /\ newResult = "ok" /\ ~Faulted /\ values.kind = "none"
    /\ values' = Values(data)
    /\ FrameFrame
    /\ UNCHANGED <<newResult, mac, capab, header>>

\* the readings a Measurement holds (the pointers that are not nil)
Readings(m) == {f \in DOMAIN m : m[f] # <<>>}

\* metrics.observeMeasurement(v): "if v.Temperature != nil" reads through v, a
\* nil v is a nil pointer dereference; otherwise one gauge per reading is set.
observeMeasurement(measurement) ==
    IF measurement = Nil THEN Fault("nil pointer dereference")
    ELSE Value(Readings(measurement.val))

\* Measurement.LogWith(l): reads m.Temperature through the receiver as well
LogWith(measurement) ==
    IF measurement = Nil THEN Fault("nil pointer dereference")
    ELSE Value(Readings(measurement.val))

\* The body of the Exporter's consumer loop after "measurement := data.Values()":
\* observeMeasurement, observeRSSI, then the log line through LogWith.  A fault of
\* either ends the task (and the process).
ExporterObserve ==
    /\ newResult = "ok" /\ values.kind \in {"nil", "value"}
    /\ exporterPc = "consuming" /\ observed.kind = "none"
    /\ observed' = observeMeasurement(values)
    /\ exporterPc' = IF "fault" \in {observeMeasurement(values).kind, LogWith(values).kind}
                     THEN "faulted" ELSE "consuming"
    /\ UNCHANGED commandVars
    /\ UNCHANGED <<insertVars, handlerVars, scanVars, sensorsNames, frameVars, clientVars,
                   drainVars, decodeVars>>

FrameNext ==
    \/ CallNew
    \/ CallHeader
    \/ CallMacAddress
    \/ CallCapabilities
    \/ CallValues
    \/ ExporterObserve

\* any buffer; the command and the other units stand still
FrameSpecInit ==
    /\ command = "history" /\ CommandInit
    /\ InsertInit /\ sensorsNames = <<>> /\ HandlerIdle /\ ScanIdle /\ ClientIdle /\ DrainIdle
    /\ ExporterIdle /\ DecodeIdle
    /\ FrameInit

FrameSpec == FrameSpecInit /\ [][FrameNext]_vars

(* ------------- client: reads and writes by attribute handle ----------- *)

handleFirmwareBattery == 56

handleDataRead == 53

handleModeChange == 51

handleDeviceTime == 65

handleHistoryControl == 62

handleHistoryRead == 60

Handles == {handleFirmwareBattery, handleDataRead, handleModeChange, handleDeviceTime,
            handleHistoryControl, handleHistoryRead}

modeRealtimeReadInit == <<160, 31>>

modeHistoryReadInit == <<160, 0, 0>>

\* faulty variant of historyAddress: the position is written high byte first
historyAddressBigEndian(pos) == <<161, pos \div 256, pos % 256>>

\* historyAddress: 0xa1, then the position as little-endian uint16
historyAddress(pos) == <<161, pos % 256, pos \div 256>>

\* the positions HistoryMeasurement is called with
Positions == {0, 1, 255, 256, 513, Uint16 - 1}

\* a read of the characteristic at a handle, a write of bytes to it
ReadOf(handle) == [kind |-> "read", handle |-> handle, data |-> <<>>]

WriteOf(handle, bytes) == [kind |-> "write", handle |-> handle, data |-> bytes]

\* the operations of client
ClientOpNames == {"DeviceTimeDiff", "Firmware", "Measurement", "HistoryLength",
                  "HistoryMeasurement"}

\* the reads and writes each operation of client makes, in order
ClientOps ==
    [DeviceTimeDiff     |-> <<ReadOf(handleDeviceTime)>>,
     Firmware           |-> <<ReadOf(handleFirmwareBattery)>>,
     Measurement        |-> <<WriteOf(handleModeChange, modeRealtimeReadInit),
                              ReadOf(handleDataRead)>>,
     HistoryLength      |-> <<WriteOf(handleHistoryControl, modeHistoryReadInit),
                              ReadOf(handleHistoryRead)>>,
     HistoryMeasurement |-> <<WriteOf(handleHistoryControl, historyAddress(histPos)),
                              ReadOf(handleHistoryRead)>>]

\* faulty variant of findCharacteristicByValueHandle: every handle is found
findCharacteristicAny(prof, handle) == <<handle>>

\* client.findCharacteristicByValueHandle: the characteristic, or nil (<<>>)
findCharacteristicByValueHandle(prof, handle) ==
    IF handle \in prof THEN <<handle>> ELSE <<>>

\* what ReadCharacteristic or WriteCharacteristic may return
RadioErrs == {"nil", "radioErr"}

\* client.read: the error it may return and what it issues on the radio
read(prof, handle) ==
    LET char == findCharacteristicByValueHandle(prof, handle)
    IN  IF char = <<>>
        THEN {[err |-> "missing", issued |-> <<>>]}
        ELSE {[err |-> e, issued |-> <<ReadOf(char[1])>>] : e \in RadioErrs}

\* client.write
write(prof, handle, bytes) ==
    LET char == findCharacteristicByValueHandle(prof, handle)
    IN  IF char = <<>>
        THEN {[err |-> "missing", issued |-> <<>>]}
        ELSE {[err |-> e, issued |-> <<WriteOf(char[1], bytes)>>] : e \in RadioErrs}

\* a connection with any discovered profile, and the operation the closure calls
ClientInit ==
    /\ profile \in SUBSET Handles
    /\ clientOp \in ClientOpNames
    /\ histPos \in (IF clientOp = "HistoryMeasurement" THEN Positions ELSE {0})
    /\ ClientStart

\* what a step of the operation leaves alone
ClientFrame == /\ UNCHANGED <<command, coreVars, outputVars, reliable>>
               /\ UNCHANGED <<insertVars, sensorsNames, handlerVars, scanVars, frameVars,
                              drainVars, exporterVars, decodeVars>>
               /\ UNCHANGED <<profile, clientOp, histPos>>

\* the next c.read or c.write of the operation; its error ends the operation
ClientCall ==
    /\ opResult = "none" /\ callIdx <= Len(ClientOps[clientOp])
    /\ LET call == ClientOps[clientOp][callIdx]
       IN  \E out \in (IF call.kind = "read" THEN read(profile, call.handle)
                       ELSE write(profile, call.handle, call.data)) :
             /\ radio' = radio \o out.issued
             /\ IF out.err = "nil"
                THEN callIdx' = callIdx + 1 /\ opResult' = "none"
                ELSE callIdx' = callIdx /\ opResult' = out.err
    /\ ClientFrame
    /\ UNCHANGED <<closureRet, loopReturn>>

\* binary.Read or UnmarshalBinary on the bytes read: the value, or an error
ClientDecode ==
    /\ opResult = "none" /\ callIdx > Len(ClientOps[clientOp])
    /\ opResult' \in {"ok", "decodeErr"}
    /\ ClientFrame
    /\ UNCHANGED <<callIdx, radio, closureRet, loopReturn>>

\* the closure after the operation: "if err != nil { Log; return nil }"
ClosureCheck ==
    /\ opResult # "none" /\ closureRet = "none"
    /\ closureRet' = IF opResult = "ok" THEN "goOn" ELSE FailReturn
    /\ ClientFrame
    /\ UNCHANGED <<callIdx, radio, opResult, loopReturn>>

\* the loop after the closure: "if err := func(...)(s); err != nil { return err }"
LoopCheck ==
    /\ closureRet \notin {"none", "goOn"} /\ loopReturn = "none"
    /\ loopReturn' = IF closureRet # "nil" THEN closureRet ELSE "goesOn"
    /\ ClientFrame
    /\ UNCHANGED <<callIdx, radio, opResult, closureRet>>

ClientNext ==
    \/ ClientCall
    \/ ClientDecode
    \/ ClosureCheck
    \/ LoopCheck

ClientSpecInit ==
    /\ command = "history" /\ CommandInit
    /\ InsertInit /\ sensorsNames = <<>> /\ HandlerIdle /\ ScanIdle /\ FrameIdle /\ DrainIdle
    /\ ExporterIdle /\ DecodeIdle
    /\ ClientInit

ClientSpec == ClientSpecInit /\ [][ClientNext]_vars

(* ------- HistoricValues on one sensor when no step fails: the count --- *)

\* the lengths the device reports in the first pass
DrainLengths == {0, 1, BatchLimit, BatchLimit + 1, BatchLimit + 2, Uint16 - 1}

\* what a step of the run leaves alone
DrainFrame ==
    /\ UNCHANGED <<command, nextSensors, deferClose, innerErr, dropped, delivered,
                   rtDelivered, passStart, passProgress, lastExit, closeErr, loopEvent,
                   prevProgress, firstLength>>
    /\ UNCHANGED <<outputVars, reliable>>
    /\ UNCHANGED <<insertVars, sensorsNames, handlerVars, scanVars, frameVars, clientVars,
                   exporterVars, decodeVars>>

\* doScan finds the one sensor
DrainScan ==
    /\ pc = "scan"
    /\ sensors' = <<1>> /\ idx' = 1
    /\ pc' = "dial"
    /\ UNCHANGED <<historyPointer, historyLength, reportedLength, i, resultErr, emitted>>
    /\ DrainFrame

\* Sensor.client and DeviceTimeDiff succeed
DrainConnect ==
    /\ pc = "dial"
    /\ pc' = "histlen"
    /\ UNCHANGED <<sensors, idx, historyPointer, historyLength, reportedLength, i,
                   resultErr, emitted>>
    /\ DrainFrame

\* HistoryLength succeeds, then "restore pointer" and the entry loop's init
DrainHistLen ==
    /\ pc = "histlen"
    /\ \E n \in (IF historyPointer[cur] = NoPointer THEN {firstLength}
                 ELSE {0, firstLength}) :
         /\ reportedLength' = n
         /\ historyLength' = ResumeLength(historyPointer[cur], n)
         /\ i' = historyLength'
    /\ pc' = "readentry"
    /\ UNCHANGED <<sensors, idx, historyPointer, resultErr, emitted>>
    /\ DrainFrame

\* HistoryMeasurement succeeds and the sink takes the Result; the position is
\* stored, then the batch test, the loop step and the loops around the closure
DrainEntry ==
    /\ pc = "readentry"
    /\ LET pos == i % Uint16
       IN  /\ emitted' = emitted + 1
           /\ historyPointer' = [historyPointer EXCEPT ![cur] = pos]
           /\ reportedLength' = NoLength
           /\ IF ~BatchFull(historyLength, pos) /\ NextIndex(i) >= 0
              THEN /\ i' = NextIndex(i)
                   /\ pc' = "readentry"
                   /\ UNCHANGED <<historyLength, resultErr>>
              ELSE /\ i' = 0
                   /\ historyLength' = 0
                   /\ IF finished(pos)
                      THEN pc' = "returned" /\ resultErr' = "nil"
                      ELSE pc' = "dial" /\ resultErr' = resultErr
    /\ UNCHANGED <<sensors, idx>>
    /\ DrainFrame

DrainNext ==
    \/ DrainScan
    \/ DrainConnect
    \/ DrainHistLen
    \/ DrainEntry

DrainSpecInit ==
    /\ command = "history" /\ CommandInit
    /\ InsertInit /\ sensorsNames = <<>> /\ HandlerIdle /\ ScanIdle /\ FrameIdle /\ ClientIdle
    /\ ExporterIdle /\ DecodeIdle
    /\ firstLength \in DrainLengths
    /\ emitted = 0

DrainSpec == DrainSpecInit /\ [][DrainNext]_vars

(* ------------- Measurement and HistoricMeasurement from bytes --------- *)

\* the longest input handed to UnmarshalBinary
MaxInputLen == 16

\* the byte patterns of the inputs; the third has a negative temperature and a
\* negative device time
Patterns == {0, 100, 200, 250}
ByteAt(p, k) == (p + 17 * k) % 256

Inputs == {[k \in 1..n |-> ByteAt(p, k)] : p \in Patterns, n \in 0..MaxInputLen}

\* the Measurement before the call: a fresh one, or one that holds readings
MeasPriors ==
    {NoReading,
     [Temperature |-> <<-5>>, Brightness |-> <<7>>, Moisture |-> <<9>>, Conductivity |-> <<11>>]}

\* bytes.NewReader(data): the bytes and how many of them are consumed
NewReader(bytes) == [bytes |-> bytes, pos |-> 0]
Remaining(r) == Len(r.bytes) - r.pos

\* binary.Read(r, binary.LittleEndian, &x) for an x of n bytes: io.ReadFull, so
\* fewer than n bytes left are an error (io.EOF or io.ErrUnexpectedEOF)
binaryRead(r, n) ==
    IF Remaining(r) >= n
    THEN [err |-> "nil", val |-> SubSeq(r.bytes, r.pos + 1, r.pos + n),
          r |-> [r EXCEPT !.pos = r.pos + n]]
    ELSE [err |-> IF Remaining(r) = 0 THEN "EOF" ELSE "ErrUnexpectedEOF", val |-> <<>>,
          r |-> [r EXCEPT !.pos = Len(r.bytes)]]

\* faulty variant of Skip: nothing is consumed
SkipNone(r, n) == [err |-> "nil", r |-> r]

\* r.Read(make([]byte, n)): the reader hands out what it has, up to n bytes, and
\* answers io.EOF only when nothing is left
Skip(r, n) ==
    IF Remaining(r) = 0 THEN [err |-> "EOF", r |-> r]
    ELSE [err |-> "nil",
          r |-> [r EXCEPT !.pos = r.pos + (IF Remaining(r) < n THEN Remaining(r) ELSE n)]]

\* int32(binary.LittleEndian.Uint32(b)): the top byte carries the sign
Int32LE(b) ==
    b[1] + 256 * b[2] + 65536 * b[3] + 16777216 * (IF b[4] >= 128 THEN b[4] - 256 ELSE b[4])

\* Measurement.UnmarshalBinary: the four readings go to locals and are stored in
\* m only after the last read succeeded
MeasurementUnmarshalBinary(m, r) ==
    LET temperature == binaryRead(r, 2)
        skip1 == Skip(temperature.r, 1)
        brightness == binaryRead(skip1.r, 2)
        skip2 == Skip(brightness.r, 2)
        moisture == binaryRead(skip2.r, 1)
        conductivity == binaryRead(moisture.r, 2)
    IN  IF temperature.err # "nil" THEN [err |-> "error reading data", m |-> m]
        ELSE IF skip1.err # "nil" THEN [err |-> "error skipping 1 byte", m |-> m]
        ELSE IF brightness.err # "nil" THEN [err |-> "error reading data", m |-> m]
        ELSE IF skip2.err # "nil" THEN [err |-> "error skipping 2 byte", m |-> m]
        ELSE IF moisture.err # "nil" THEN [err |-> "error reading data", m |-> m]
        ELSE IF conductivity.err # "nil" THEN [err |-> "error reading data", m |-> m]
        ELSE [err |-> "nil",
              m |-> [Temperature |-> <<Int16(Uint16LE(temperature.val))>>,
                     Moisture |-> <<moisture.val[1]>>,
                     Brightness |-> <<Uint16LE(brightness.val)>>,
                     Conductivity |-> <<Uint16LE(conductivity.val)>>]]

\* HistoricMeasurement.UnmarshalBinary: DeviceTime is stored as soon as its four
\* bytes are read, then the embedded Measurement decodes the rest
HistoricUnmarshalBinary(m, time, r) ==
    LET t == binaryRead(r, 4)
        rest == MeasurementUnmarshalBinary(m, t.r)
    IN  IF t.err # "nil" THEN [err |-> "error reading data", m |-> m, time |-> time]
        ELSE [err |-> rest.err, m |-> rest.m, time |-> <<Int32LE(t.val)>>]

DecodeInit ==
    /\ input \in Inputs
    /\ decodeKind \in {"Measurement", "Historic"}
    /\ measPrior \in MeasPriors
    /\ meas = measPrior
    /\ deviceTime = <<>>
    /\ decodeErr = "none"

\* what a call of UnmarshalBinary leaves alone
DecodeFrame ==
    /\ UNCHANGED commandVars
    /\ UNCHANGED <<insertVars, sensorsNames, handlerVars, scanVars, frameVars, clientVars,
                   drainVars, exporterVars>>
    /\ UNCHANGED <<input, decodeKind, measPrior>>

\* measurement.UnmarshalBinary(bytes.NewReader(data)) of client.Measurement
CallMeasurementUnmarshal ==
    /\ decodeKind = "Measurement" /\ decodeErr = "none"
    /\ LET res == MeasurementUnmarshalBinary(meas, NewReader(input))
       IN  /\ decodeErr' = res.err
           /\ meas' = res.m
    /\ UNCHANGED deviceTime
    /\ DecodeFrame

\* measurement.UnmarshalBinary(bytes.NewReader(data)) of client.HistoryMeasurement
CallHistoricUnmarshal ==
    /\ decodeKind = "Historic" /\ decodeErr = "none"
    /\ LET res == HistoricUnmarshalBinary(meas, deviceTime, NewReader(input))
       IN  /\ decodeErr' = res.err
           /\ meas' = res.m
           /\ deviceTime' = res.time
    /\ DecodeFrame

DecodeNext ==
    \/ CallMeasurementUnmarshal
    \/ CallHistoricUnmarshal

\* any input; the command and the other units stand still
DecodeSpecInit ==
    /\ command = "history" /\ CommandInit
    /\ InsertInit /\ sensorsNames = <<>> /\ HandlerIdle /\ ScanIdle /\ FrameIdle /\ ClientIdle
    /\ DrainIdle /\ ExporterIdle
    /\ DecodeInit

DecodeSpec == DecodeSpecInit /\ [][DecodeNext]_vars

(* ------------------------------- claims ------------------------------- *)

Last(q) == q[Len(q)]

\* the radio steps of a closure call, and how a call that failed at one ended
FailPoints == {"dial", "discover", "timediff", "histlen", "readentry", "firmware",
               "measurement"}

FailKinds == {"dialFail", "discoverFail", "readFail"}

\* C1: over a whole run of HistoricValues, for every sensor the positions the
\* sink received are strictly decreasing (so none is received twice), and the
\* sensor's cursor is the position received last (nil while none was).
C1_NoPositionTwice ==
    \A a \in Addr :
        LET d == delivered[a]
        IN  /\ \A k \in 1..(Len(d) - 1) : d[k + 1] < d[k]
            /\ historyPointer[a] = IF d = <<>> THEN NoPointer ELSE Last(d)

\* a run of several passes has returned nil with every position of the long
\* history received and the cursor at 0
C1_Witness ==
    /\ command = "history"
    /\ pc = "returned" /\ resultErr = "nil"
    /\ historyPointer[1] = 0
    /\ Len(delivered[1]) = MaxLen + 1

\* C2: when the context is done while the send of position p is blocked (the
\* sink does not take it), the step HistoricValues takes returns the context's
\* error, delivers nothing and leaves the cursor as it was, which is not p.
C2_AbortKeepsCursor ==
    [][(pc = "emit" /\ innerErr # "none" /\ sink # "idle" /\ pc' # "emit")
        => /\ pc' = "returned"
           /\ resultErr' = innerErr
           /\ delivered' = delivered
           /\ historyPointer' = historyPointer
           /\ historyPointer'[cur] # i % Uint16]_vars

\* HistoricValues has returned context.Canceled out of a blocked send, the
\* sensor's cursor still at the position emitted before
C2_Witness ==
    /\ command = "history"
    /\ pc = "returned" /\ lastExit = "ctxAbort" /\ resultErr = "Canceled"
    /\ historyPointer[cur] = i + 1

\* C3: the pass loop never starts another pass after a pass in which no
\* sensor's cursor advanced.
C3_NoPassAfterIdlePass == loopEvent = "newPass" => prevProgress

\* C4: once the run's context is cancelled, HistoricValues starts no further pass.
C4_NoPassAfterCancel == [][ctxDone => loopEvent' # "newPass"]_vars

\* C5: when the sink has reported an error, the result of the command is that
\* sink error.
C5_SinkErrorIsResult ==
    (sink \in {"reporting", "exited"} /\ cmdPc = "exit") => cmdResult = "sinkErr"

\* C6: no pass over one sensor delivers more than BatchLimit + 1 = 51 Results.
C6_AtMost51PerPass ==
    [][\A a \in Addr :
         delivered'[a] # delivered[a] => Len(delivered'[a]) - passStart <= BatchLimit + 1]_vars

\* C7: within one pass over one sensor every position delivered is >= 0 and,
\* after the first of the pass, exactly one less than the one delivered before.
C7_PassOrder ==
    [][\A a \in Addr :
         delivered'[a] # delivered[a]
         => LET d == delivered[a]
                p == Last(delivered'[a])
            IN  /\ a = cur
                /\ delivered'[a] = Append(d, p)
                /\ p >= 0
                /\ (Len(d) > passStart => p = Last(d) - 1)]_vars

\* a pass has delivered at least two entries and reads on
C7_Witness ==
    /\ pc = "readentry"
    /\ Len(delivered[cur]) >= passStart + 2

\* C8: a closure call that fails at a radio step (connect, read, write, missing
\* attribute, decode) makes the operation return no error, leaves every cursor
\* and the log as they were, and the loop goes on: to the next sensor of the
\* pass if there is one, else to the next pass or to the return of nil.
C8_FailureEndsOnlyThePass ==
    [][(pc \in FailPoints /\ lastExit' \in FailKinds /\ UNCHANGED <<sink, watcher, ctxDone>>)
        => /\ resultErr' \in {"pending", "nil"}
           /\ historyPointer' = historyPointer
           /\ delivered' = delivered /\ rtDelivered' = rtDelivered
           /\ IF idx < Len(sensors)
              THEN /\ resultErr' = "pending" /\ pc' = "dial"
                   /\ sensors' = sensors /\ idx' = idx + 1
              ELSE \/ pc' = "returned" /\ resultErr' = "nil"
                   \/ /\ command = "history" /\ resultErr' = "pending"
                      /\ pc' = "dial" /\ idx' = 1]_vars

\* a read failed for the first sensor, whose cursor was set before, and the
\* second sensor of the pass is being connected to
C8_Witness ==
    /\ command = "history"
    /\ pc = "dial" /\ lastExit = "readFail" /\ loopEvent = "next" /\ idx = 2
    /\ historyPointer[sensors[1]] > 0
    /\ resultErr = "pending"

\* C9: the command returns neither context.Canceled nor
\* context.DeadlineExceeded as its error.
C9_NoContextErrorReported == cmdResult \notin {"Canceled", "DeadlineExceeded"}

\* C10: whenever a closure call that holds a dialled connection returns, its
\* CancelConnection runs.
C10_DisconnectAlways ==
    [][(Holding /\ pc' \in {"dial", "returned"}) => deferClose]_vars

\* C11: at most one sensor connection is open at any moment: while a closure
\* call holds a dialled connection, no connection dialled by an earlier call
\* is still open.
C11_OneConnectionOpen == ~(dropped /\ Holding)

\* the addresses of a slice or of a sequence of calls
AddrsOf(q) == {q[k].addr : k \in 1..Len(q)}

\* C12: after any sequence of insertSorted calls on the empty slice, the slice
\* is strictly ascending by address string and its addresses are exactly the
\* addresses inserted.
C12_SortedAndExact ==
    /\ \A k \in 1..(Len(sensorSlice) - 1) :
         StrLess(sensorSlice[k].addr, sensorSlice[k + 1].addr)
    /\ AddrsOf(sensorSlice) = AddrsOf(calls)

\* b, then a, then c were inserted and the slice is [a, b, c]
C12_Witness ==
    /\ Len(calls) = 3
    /\ calls[1].addr = <<98>> /\ calls[2].addr = <<97>> /\ calls[3].addr = <<99>>
    /\ Len(sensorSlice) = 3
    /\ sensorSlice[1].addr = <<97>> /\ sensorSlice[2].addr = <<98>>
    /\ sensorSlice[3].addr = <<99>>

\* C13: an insertSorted call with an address already present puts the new
\* sensor in that entry's place, leaves the size and every other entry as they
\* were and returns existed = true; with an address not present it grows the
\* slice by one and returns existed = false.
C13_ReplaceOrGrow ==
    [][(calls' # calls) =>
        LET e == calls'[Len(calls')]
        IN  IF e.addr \in AddrsOf(sensorSlice)
            THEN /\ existed'
                 /\ Len(sensorSlice') = Len(sensorSlice)
                 /\ \A k \in 1..Len(sensorSlice) :
                      sensorSlice'[k] = IF sensorSlice[k].addr = e.addr
                                        THEN e ELSE sensorSlice[k]
            ELSE /\ ~existed'
                 /\ Len(sensorSlice') = Len(sensorSlice) + 1]_vars

\* the middle entry of three was replaced by a sensor with another name
C13_Witness ==
    /\ existed
    /\ Len(sensorSlice) = 3
    /\ Len(calls) = 4
    /\ calls[4].addr = sensorSlice[2].addr
    /\ calls[4].name = "replace"
    /\ sensorSlice[2].name = "replace"
    /\ \E k \in 1..3 : calls[k].addr = calls[4].addr /\ calls[k].name = ""

\* C16: the classifier accepts a broadcast exactly when it is connectable and
\* its name is "Flower care" or the first three octets of its address are
\* C4, 7C, 8D, in whichever letter case the address is printed.
C16_ClassifierExact ==
    handled =>
        ((verdict = "accept") <=>
            /\ adv.connectable
            /\ \/ adv.name = deviceName
               \/ SubSeq(adv.octets, 1, 3) = VendorOctets)

\* a connectable broadcast without the name, its address printed in lower
\* case, was accepted by its prefix
C16_Witness ==
    /\ handled /\ verdict = "accept"
    /\ adv.name # deviceName /\ ~adv.upper

\* C17: with a non-empty override list the handler hands an accepted broadcast
\* to the consumer exactly when some entry holds its address in either letter
\* case, and the Sensor then carries the name of such an entry; with an empty
\* list every accepted broadcast is handed on under its broadcast name.
C17_OverrideFilterAndName ==
    handled =>
        IF Len(sensorsNames) > 0
        THEN /\ (handed # <<>>) <=>
                   /\ verdict = "accept"
                   /\ \E k \in 1..Len(sensorsNames), n \in {<<107>>, <<109>>}, u \in BOOLEAN :
                        sensorsNames[k] = OverrideEntry(n, adv.octets, u)
             /\ handed # <<>> =>
                   \E k \in 1..Len(sensorsNames), u \in BOOLEAN :
                        sensorsNames[k] = OverrideEntry(handed[1].name, adv.octets, u)
        ELSE /\ (handed # <<>>) <=> (verdict = "accept")
             /\ handed # <<>> => handed[1].name = adv.name

\* a broadcast whose address is printed in lower case was handed on under the
\* name of an entry that gives the address in upper case
C17_Witness ==
    /\ handled /\ handed # <<>>
    /\ ~adv.upper /\ adv.name = deviceName
    /\ handed[1].name = <<107>>
    /\ Len(sensorsNames) = 1
    /\ sensorsNames[1] = OverrideEntry(<<107>>, adv.octets, TRUE)

\* C14: in one session the consumer calls cancel() at most once; each call is
\* made with a target count above 0 that the size of the set has reached;
\* with no target count it is never made and the scan, unless the radio
\* fails, ends by the deadline.
C14_CancelOnceAtTarget ==
    [][/\ cancels' <= 1
       /\ cancels' # cancels => expectedSensors > 0 /\ Len(found') >= expectedSensors
       /\ expectedSensors <= 0 =>
            /\ cancels' = 0
            /\ scanEnd' \in {"none", "radioErr", "DeadlineExceeded"}]_vars

\* the consumer cancelled once and has inserted a further sensor since
C14_Witness ==
    /\ cancels = 1
    /\ expectedSensors > 0
    /\ Len(found) > expectedSensors

\* C15: doScan returns nil as error and the slice of the sensors found so far
\* when device.Scan ended with deadline-exceeded or with cancellation; it
\* returns an error and no slice when device.Scan ended with another error.
C15_ScanEndDecides ==
    [][(scanPc # "returned" /\ scanPc' = "returned") =>
        IF scanEnd \in {"DeadlineExceeded", "Canceled"}
        THEN /\ scanResult'.err = "nil"
             /\ scanResult'.sensors \in
                    {found} \cup (IF consumerPc = "insert"
                                  THEN {insertSorted(found, got[1])[1]} ELSE {})
        ELSE /\ scanResult'.err = "scanErr"
             /\ scanResult'.sensors = <<>>]_vars

\* a scan that found sensors failed, and one that was cancelled returned them
C15_Witness ==
    /\ scanPc = "returned"
    /\ found # <<>>
    /\ \/ scanEnd = "radioErr" /\ scanResult.err = "scanErr"
       \/ scanEnd = "Canceled" /\ scanResult.sensors # <<>>

\* C18: with a non-empty override list the target count is the number of its
\* entries, whatever --expected-sensors says: the consumer has cancelled the
\* scan exactly when that many distinct sensors are in the set.
C18_OverrideCountIsTarget ==
    Len(sensorsNames) > 0 =>
        ((cancels > 0) <=> (Cardinality(AddrsOf(found)) >= Len(sensorsNames)))

\* two entries and --expected-sensors 1: cancelled with two sensors in the set
C18_Witness ==
    /\ Len(sensorsNames) = 2 /\ expectedCfg = 1
    /\ cancels = 1
    /\ Len(found) = 2

\* the buffer is shorter than the fields its flags announce
ShortForFlags(d) ==
    /\ d.len >= MinFrameLen
    /\ \/ hasMacAddress(d) /\ d.len < macAddressOffset + 6
       \/ hasCapabilities(d) /\ d.len < capabiltiesOffset(d) + 1
       \/ /\ hasMeasurement(d)
          /\ IF d.len < valuesOffset(d) + 3 THEN TRUE
             ELSE d.len < valuesOffset(d) + 3 + At(d, valuesOffset(d) + 2)

\* C19: for a buffer shorter than its flags require, decoding yields an
\* error: New does not accept it, and none of MacAddress, Capabilities and
\* Values faults on it.
C19_ShortBufferIsError ==
    ShortForFlags(data) =>
        /\ newResult # "ok"
        /\ mac.kind # "fault" /\ capab.kind # "fault" /\ values.kind # "fault"

\* C20: Values of a frame whose sub-record is whole and carries a
\* measurement-kind id other than temperature, brightness, moisture and
\* conductivity is an error value: not nil, not a value, not a fault.
C20_UnknownIdIsDecodeError ==
    (/\ values.kind # "none"
     /\ hasMeasurement(data) /\ ~ShortForFlags(data)
     /\ At(data, valuesOffset(data)) + 256 * At(data, valuesOffset(data) + 1)
            = measurementBattery)
        => values.kind = "error"

\* C21: on a frame as long as its flags require, MacAddress() is nil exactly
\* when the MAC flag is clear, Values() is nil exactly when the measurement
\* flag is clear, and Capabilities() yields no value when the capability flag
\* is clear.
C21_PresenceFollowsFlags ==
    (newResult = "ok" /\ ~ShortForFlags(data)) =>
        /\ mac.kind # "none" => ((mac.kind = "nil") <=> ~hasMacAddress(data))
        /\ values.kind # "none" => ((values.kind = "nil") <=> ~hasMeasurement(data))
        /\ (capab.kind # "none" /\ ~hasCapabilities(data)) => capab.kind # "value"

\* the frame 71209800da795d658d7cc40d0410021201, whole
IsParseExample(d) ==
    d.len = 17 /\ d.bytes = ParseFrame(218, measurementTemperature, <<18, 1>>)

\* C22: the version is the top 4 and the flags the low 12 bits of the first
\* little-endian word, the product id is bytes 2-3 little-endian, the frame
\* counter is byte 4, the MAC is bytes 5..10 reversed, and the capability byte
\* follows the MAC; the example frame gives version 2, product id 0x0098, MAC
\* c4:7c:8d:65:5d:79, capability 0x0d and the flags newFactory, hasMacAddress,
\* hasCapabilities and hasMeasurement only.
C22_FrameLayout ==
    /\ header.kind = "value" =>
         /\ header.val.version \in 0..15 /\ header.val.flags \in 0..4095
         /\ header.val.version * 4096 + header.val.flags
                = data.bytes[1] + 256 * data.bytes[2]
         /\ header.val.productID = data.bytes[3] + 256 * data.bytes[4]
         /\ header.val.frameCounter = data.bytes[5]
         /\ IsParseExample(data) =>
                /\ header.val.version = 2 /\ header.val.productID = 152
                /\ header.val.flags = 1 + 16 + 32 + 64
    /\ mac.kind = "value" =>
         /\ \A k \in 1..6 : mac.val[k] = data.bytes[12 - k]
         /\ IsParseExample(data) => mac.val = <<196, 124, 141, 101, 93, 121>>
    /\ (capab.kind = "value" /\ (data.bytes[1] \div 16) % 2 = 1
            /\ (data.bytes[1] \div 32) % 2 = 1) =>
         /\ capab.val = <<data.bytes[12]>>
         /\ IsParseExample(data) => capab.val = <<13>>

\* every accessor of the fixed part was called on the example frame
C22_Witness ==
    /\ IsParseExample(data)
    /\ header.kind = "value" /\ mac.kind = "value" /\ capab.kind = "value"

\* the signed 16-bit integer of a little-endian byte pair
SignedLE(b) ==
    CHOOSE n \in -32768..32767 : (n - (b[1] + 256 * b[2])) % 65536 = 0

\* C23: a Measurement that Values() returns holds exactly one reading, the
\* one its kind id names: temperature as a signed 16-bit little-endian number
\* of tenths of a degree (12 01 is 274, e7 ff is -25), brightness and
\* conductivity unsigned 16-bit little-endian, moisture one unsigned byte.
C23_OneReadingByKind ==
    values.kind = "value" =>
        LET id == At(data, valuesOffset(data)) + 256 * At(data, valuesOffset(data) + 1)
            payload == [k \in 1..At(data, valuesOffset(data) + 2) |->
                            At(data, valuesOffset(data) + 2 + k)]
            m == values.val
        IN  /\ Cardinality({f \in DOMAIN m : m[f] # <<>>}) = 1
            /\ id = measurementTemperature =>
                   /\ m.Temperature = <<SignedLE(payload)>>
                   /\ SubSeq(payload, 1, 2) = <<18, 1>> => m.Temperature = <<274>>
                   /\ SubSeq(payload, 1, 2) = <<231, 255>> => m.Temperature = <<-25>>
            /\ id = measurementBrightness =>
                   m.Brightness = <<payload[1] + 256 * payload[2]>>
            /\ id = measurementFertility =>
                   m.Conductivity = <<payload[1] + 256 * payload[2]>>
            /\ id = measurementMoisture => m.Moisture = <<payload[1]>>

\* the frame 71209800da795d658d7cc40d041002e7ff was decoded to -25 tenths
C23_Witness ==
    /\ data.len = 17
    /\ data.bytes = ParseFrame(218, measurementTemperature, <<231, 255>>)
    /\ values.kind = "value"
    /\ values.val.Temperature = <<-25>>

\* C24: a pass over a sensor that carries a cursor c starts at position c - 1
\* whatever length the device has just reported; a pass over a sensor with no
\* cursor starts at the length the device reported.
C24_PassStartsBelowCursor ==
    [][(pc = "histlen" /\ pc' = "readentry") =>
          /\ reportedLength' \in Lengths(cur)
          /\ i' = IF historyPointer[cur] # NoPointer
                  THEN historyPointer[cur] - 1
                  ELSE reportedLength']_vars

\* a pass resumed below its cursor although the device reported another length
C24_Witness ==
    /\ pc = "readentry" /\ reportedLength # NoLength
    /\ historyPointer[cur] # NoPointer
    /\ i = historyPointer[cur] - 1
    /\ i # reportedLength

\* C25: a sensor whose cursor is 0 is never connected to or read again, so the
\* resume computation cursor - 1 is never evaluated with cursor 0 and the
\* resumed position never wraps to 65535.
C25_FinishedNeverResumed ==
    [][/\ (command = "history" /\ InClosure') => historyPointer'[sensors'[idx']] # 0
       /\ (pc = "histlen" /\ pc' = "readentry" /\ historyPointer[cur] # NoPointer) =>
              /\ historyPointer[cur] # 0
              /\ historyLength' = historyPointer[cur] - 1
              /\ historyLength' # Uint16 - 1]_vars

\* a later pass reads another sensor and leaves the finished one out
C25_Witness ==
    /\ command = "history" /\ pc = "readentry"
    /\ historyPointer[cur] \notin {NoPointer, 0}
    /\ \E a \in Addr : /\ historyPointer[a] = 0
                       /\ \A k \in 1..Len(sensors) : sensors[k] # a

\* the cursor the sensor of the current closure call had when the call began
CursorBeforePass ==
    IF passStart = 0 THEN NoPointer ELSE delivered[cur][passStart]

\* C26: every pass over a sensor in which the connect succeeds ends with the
\* sensor's cursor strictly lower than before the pass, or set if it was absent.
C26_ConnectedPassAdvances ==
    [][(command = "history" /\ pc \in {"timediff", "histlen", "readentry", "emit"}
            /\ pc' \in {"dial", "returned"}) =>
          /\ historyPointer'[cur] # NoPointer
          /\ CursorBeforePass # NoPointer => historyPointer'[cur] < CursorBeforePass]_vars

\* HistoricValues returned nil and every sensor it found is finished
AllSynchronized ==
    /\ pc = "returned" /\ resultErr = "nil"
    /\ \A a \in Addr : historyPointer[a] \in {NoPointer, 0}
    /\ \A k \in 1..Len(sensors) : historyPointer[sensors[k]] = 0

\* C27: once every connect, read, write and sink send succeeds and the context
\* is not cancelled, HistoricValues eventually returns nil with the cursor of
\* every discovered sensor at 0.
C27_EventuallySynchronized == reliable ~> AllSynchronized

\* the run settled with the first sensor's history unread and a cursor set on
\* the second, and ended with both at 0
C27_Witness ==
    /\ reliable /\ AllSynchronized
    /\ Len(delivered[1]) = MaxLen + 1
    /\ \A a \in Addr : historyPointer[a] = 0

\* C28: when the 30 s timeout of a sensor's closure call has expired and the
\* run's context is live, the step that ends the call returns no error from
\* HistoricValues or Realtime, and the loop goes on to the next sensor of the
\* pass; also when the expiry is met at a blocked emission.
C28_TimeoutEndsOnlyTheSensor ==
    [][(InClosure /\ innerErr = "DeadlineExceeded" /\ ~ctxDone /\ ~ctxDone'
            /\ pc' \in {"dial", "returned"}) =>
          /\ resultErr' \in {"pending", "nil"}
          /\ idx < Len(sensors) => (pc' = "dial" /\ idx' = idx + 1)]_vars

\* C29: once the context of the closure call is done (cancelled or expired),
\* no Result of that call reaches the sink, also when the sink is ready.
C29_NoDeliveryOnceDone ==
    [][innerErr # "none" =>
          (delivered' = delivered /\ rtDelivered' = rtDelivered)]_vars

\* C30: a read or write on a handle the discovered profile does not contain
\* returns an error and issues nothing on the radio (only handles of the
\* profile are ever read or written); after that error the closure returns
\* nil and the loop around it goes on.
C30_MissingHandleIsLocalError ==
    /\ \A k \in 1..Len(radio) : radio[k].handle \in profile
    /\ (opResult # "none" /\ callIdx <= Len(ClientOps[clientOp])
            /\ ClientOps[clientOp][callIdx].handle \notin profile) =>
          /\ opResult = "missing"
          /\ Len(radio) = callIdx - 1
          /\ closureRet \in {"none", "nil"}
          /\ loopReturn \in {"none", "goesOn"}

\* the write of an operation went out, its read found no characteristic, and
\* the loop went on
C30_Witness ==
    /\ opResult = "missing" /\ callIdx = 2
    /\ radio = <<ClientOps[clientOp][1]>>
    /\ closureRet = "nil" /\ loopReturn = "goesOn"

\* the four operations the claim C31 names
WriteThenReadOps == {"Firmware", "Measurement", "HistoryLength", "HistoryMeasurement"}

\* C31: Firmware, Measurement, HistoryLength and HistoryMeasurement(pos) each
\* write a command and read only after that write succeeded, and
\* HistoryMeasurement(pos) writes exactly the bytes 0xA1, low byte of pos, high
\* byte of pos.
C31_WriteThenRead ==
    clientOp \in WriteThenReadOps =>
        /\ \A k \in 1..Len(radio) :
             radio[k].kind = "read" => (k = 2 /\ radio[1].kind = "write")
        /\ opResult = "ok" => Len(radio) = 2
        /\ (clientOp = "HistoryMeasurement" /\ Len(radio) >= 1) =>
               /\ Len(radio[1].data) = 3
               /\ radio[1].data[1] = 161
               /\ radio[1].data[2] + 256 * radio[1].data[3] = histPos
               /\ radio[1].data[2] < 256

\* C31 as amended: Measurement, HistoryLength and HistoryMeasurement(pos) each
\* write a command and read only after that write succeeded, Firmware is a
\* single read with no write, and HistoryMeasurement(pos) writes exactly the
\* bytes 0xA1, low byte of pos, high byte of pos.
C31_WriteThenReadButFirmware ==
    /\ clientOp \in WriteThenReadOps \ {"Firmware"} =>
         /\ \A k \in 1..Len(radio) :
              radio[k].kind = "read" => (k = 2 /\ radio[1].kind = "write")
         /\ opResult = "ok" => Len(radio) = 2
    /\ clientOp = "Firmware" =>
         /\ \A k \in 1..Len(radio) : radio[k].kind = "read" /\ k = 1
         /\ opResult = "ok" => Len(radio) = 1
    /\ (clientOp = "HistoryMeasurement" /\ Len(radio) >= 1) =>
         /\ Len(radio[1].data) = 3
         /\ radio[1].data[1] = 161
         /\ radio[1].data[2] + 256 * radio[1].data[3] = histPos
         /\ radio[1].data[2] < 256

\* HistoryMeasurement(513) wrote a1 01 02, read after it, and decoded
C31_Witness ==
    /\ clientOp = "HistoryMeasurement" /\ histPos = 513
    /\ opResult = "ok"
    /\ Len(radio) = 2 /\ radio[1].data = <<161, 1, 2>> /\ radio[2].kind = "read"

\* C32: when nothing fails and nothing is cancelled, the sensor whose device
\* reported the length N (0 and 65535 included) has N + 1 Results emitted, for
\* the positions N, N - 1, ..., 0 in this order, and the run ends after
\* position 0: the position never wraps.
C32_AllPositionsOnce ==
    [][/\ emitted' # emitted =>
            /\ emitted' = emitted + 1
            /\ historyPointer'[1] = firstLength - emitted
       /\ pc' = "returned" =>
            /\ emitted' = firstLength + 1
            /\ historyPointer'[1] = 0]_vars

\* the run over a history of length 65535 has ended
C32_Witness ==
    /\ firstLength = Uint16 - 1
    /\ pc = "returned" /\ resultErr = "nil"
    /\ emitted = Uint16

\* C33: Realtime emits at most one Result per discovered sensor, in ascending
\* address order of the sensors found (each Result is of a sensor the loop has
\* already visited), and a closure call whose connect, firmware read or
\* measurement read fails emits none.
C33_OneResultPerSensorInOrder ==
    [][command = "realtime" =>
          /\ \A j \in 1..(Len(rtDelivered') - 1) : rtDelivered'[j] < rtDelivered'[j + 1]
          /\ \A j \in 1..Len(rtDelivered') :
               \E k \in 1..Len(sensors') :
                  /\ rtDelivered'[j] = sensors'[k]
                  /\ k < idx' \/ pc' = "returned"
          /\ (pc \in FailPoints /\ lastExit' \in FailKinds /\ pc' \in {"dial", "returned"}
                  /\ UNCHANGED <<sink, watcher, ctxDone>>) =>
                /\ rtDelivered' = rtDelivered
                /\ \A j \in 1..Len(rtDelivered') : rtDelivered'[j] # cur]_vars

\* the first sensor's measurement read failed, the second sensor's Result was
\* emitted, and Realtime returned
C33_Witness ==
    /\ command = "realtime" /\ pc = "returned" /\ resultErr = "nil"
    /\ Len(sensors) = 2
    /\ rtDelivered = <<sensors[2]>>

\* C34: the slice doScan returns holds every address whose sensor event the
\* consumer had received when the scan ended, and doScan does not read the
\* slice while the consumer is inserting the sensor it received last.
C34_ReturnedSetIsComplete ==
    [][(scanPc = "closed" /\ scanPc' = "returned") =>
          /\ consumerPc # "insert"
          /\ receivedAtEnd \subseteq AddrsOf(scanResult'.sensors)]_vars

\* C37: whenever doScan has returned, with the slice or with a scan error, the
\* sensor channel is closed, so that the consumer's range loop ends.
C37_ChannelClosedOnReturn == scanPc = "returned" => chClosed

\* C38: no handler call sends on the sensor channel after doScanReal closed
\* it, also when calls are still blocked in their send when the scan returns.
C38_NoSendAfterClose == ~panicked

\* C35: after Realtime or HistoricValues has returned without error and the sink
\* has reported no error, the command's finish step eventually returns and the
\* command terminates.
C35_FinishReturns ==
    (cmdPc = "finish" /\ sink = "idle") ~> (cmdPc = "exit")

\* C36: the Exporter's consumer handles a frame without a measurement (Values()
\* is nil) without faulting: it records no measurement and goes on consuming.
C36_NoMeasurementNoFault ==
    (values = Nil /\ observed.kind # "none") =>
        /\ exporterPc = "consuming"
        /\ observed = Value({})

\* C39: Measurement.UnmarshalBinary succeeds exactly for inputs of at least 10
\* bytes and then sets the four readings (temperature bytes 0-1 signed,
\* brightness bytes 3-4, moisture byte 7, conductivity bytes 8-9, little-endian);
\* on a shorter input it returns an error and leaves the four readings as they
\* were.  HistoricMeasurement.UnmarshalBinary needs 4 more leading bytes, the
\* little-endian signed 32-bit device time.
LeadingBytes == IF decodeKind = "Historic" THEN 4 ELSE 0
C39_DecodeByLength ==
    decodeErr # "none" =>
        LET o == LeadingBytes
        IN  /\ (decodeErr = "nil") <=> (Len(input) >= 10 + o)
            /\ decodeErr = "nil" =>
                 /\ meas.Temperature =
                      <<IF input[o + 2] >= 128
                        THEN input[o + 1] + 256 * input[o + 2] - 65536
                        ELSE input[o + 1] + 256 * input[o + 2]>>
                 /\ meas.Brightness = <<input[o + 4] + 256 * input[o + 5]>>
                 /\ meas.Moisture = <<input[o + 8]>>
                 /\ meas.Conductivity = <<input[o + 9] + 256 * input[o + 10]>>
                 /\ decodeKind = "Historic" =>
                      /\ deviceTime[1] % 256 = input[1]
                      /\ (deviceTime[1] \div 256) % 256 = input[2]
                      /\ (deviceTime[1] \div 65536) % 256 = input[3]
                      /\ (deviceTime[1] \div 16777216) % 256 = input[4]
                      /\ (deviceTime[1] \div 16777216) \in -128..127
            /\ decodeErr # "nil" => meas = measPrior

\* a historic entry with a negative device time and a negative temperature is
\* decoded over a Measurement that held other readings
C39_Witness ==
    /\ decodeKind = "Historic" /\ decodeErr = "nil"
    /\ measPrior # NoReading /\ meas # measPrior
    /\ deviceTime[1] < 0 /\ meas.Temperature[1] < 0

====
